---- MODULE Spec2Model ----
(***************************************************************************)
(* The device-command session of the fxa-client component: the polling     *)
(* loop (poll_remote_commands / handle_commands / handle_command), the     *)
(* send-tab command (ensure_send_tab_registered, send_tab,                 *)
(* handle_send_tab_command), the device-update calls, the persistence      *)
(* callback, and the relay the session talks to.                           *)
(*                                                                         *)
(* One FirefoxAccount is modelled.  An operation holds the account for its *)
(* whole duration (the example wraps it in a Mutex), so operations do not  *)
(* interleave; poll_remote_commands is cut at the points where a process   *)
(* crash leaves a different durable state (after the listing, after        *)
(* handle_commands, after the high-water mark is set, after the callback). *)
(*                                                                         *)
(* Cryptography is symbolic: a key pair is an identifier, a ciphertext     *)
(* names the key it was made for, and decryption checks that name.         *)
(***************************************************************************)
EXTENDS Integers, Sequences, FiniteSets, TLC

VARIABLES
    refresh_token,          \* StateV2.refresh_token : Option
    scoped_keys,            \* StateV2.scoped_keys, the oldsync entry : Option
    last_handled_command,   \* StateV2.last_handled_command : Option<u64>
    commands_data,          \* StateV2.commands_data : HashMap<String, String>
    persist_callback,       \* FirefoxAccount.persist_callback is Some
    persisted,              \* the JSON last written by the callback (credentials.json)
    relay_commands,         \* relay: the commands stored for this device, by index
    relay_devices,          \* relay: device id -> availableCommands
    pc,                     \* position of the operation in progress
    op,                     \* the operation in progress
    requested,              \* index sent with the last command listing
    pending,                \* the PendingCommandsResponse of the poll in progress
    account_events,         \* events collected by handle_commands
    result,                 \* Result returned by the operation
    calls,                  \* network calls made by the operation, in order
    requests,               \* what each of those calls sent to the relay
    persist_calls,          \* callback invocations made by the operation
    consumed,               \* tabs the caller has handled (opened)
    owed,                   \* history: batch a poll retrieved and then dropped
    fn_args,                \* arguments handed to a function of commands/send_tab.rs
    fn_value,               \* what that function returned
    mutex,                  \* examples/devices_api.rs: the thread holding the Mutex
    main_thread,            \* examples/devices_api.rs: position of the main thread
    poll_thread,            \* examples/devices_api.rs: position of the spawned thread
    evts,                   \* examples/devices_api.rs: the spawned thread's `evts`
    callback,               \* what the registered persistence callback does
    moz_places,             \* places: rows of moz_places
    moz_places_tombstones,  \* places: guids in moz_places_tombstones
    moz_updateoriginsinsert_temp,   \* places: rows of the temp table
    moz_updateoriginsdelete_temp,   \* places: rows of the temp table
    moz_historyvisits               \* places: rows [id, is_local, place_id, visit_date, visit_type]

vars == << refresh_token, scoped_keys, last_handled_command, commands_data,
           persist_callback, persisted, relay_commands, relay_devices, pc, op,
           requested, pending, account_events, result, calls, requests, persist_calls,
           consumed, owed, fn_args, fn_value, mutex, main_thread, poll_thread,
           evts, callback, moz_places, moz_places_tombstones,
           moz_updateoriginsinsert_temp, moz_updateoriginsdelete_temp,
           moz_historyvisits >>

----------------------------------------------------------------------------
(* Bounds *)

\* commands the relay stores for this device (honest relay)
MaxCommands == 2
\* largest index an untrusted relay puts in a response
MaxIndex == 2
\* most messages an untrusted relay puts in one response
MaxBatch == 2

----------------------------------------------------------------------------
(* Option<T>, Result<T> *)

None == << >>
Some(x) == << x >>
IsSome(o) == o /= None
Unwrap(o) == o[1]
unwrap_or(o, d) == IF o = None THEN d ELSE o[1]

NoEvents == << >>
Ok(v) == [ok |-> TRUE, value |-> v, error |-> "none"]
Err(e) == [ok |-> FALSE, value |-> NoEvents, error |-> e]
Unit == << >>
\* A panic of the calling thread: the call does not return
Panic(message) == [ok |-> FALSE, value |-> << >>, error |-> message]
IsPanic(r) == r.error \in {"panic: attempt to add with overflow",
                           "panic: index out of bounds"}

RECURSIVE SeqToSet(_)
SeqToSet(s) == IF s = << >> THEN {} ELSE {Head(s)} \cup SeqToSet(Tail(s))

----------------------------------------------------------------------------
(* Names *)

COMMAND_NAME == "https://identity.mozilla.com/cmd/open-uri"
BOGUS == "bogus"
OWN == "own"
PEER == "peer"
\* a device that sent a command and has since left the account
REMOVED == "removed"
DeviceIds == {OWN, PEER}
KeyIds == {"kA", "kB"}
Token == "refresh-token"
\* ScopedKey { kid, k }: kid is "<timestamp>-<base64url(kxcs)>", held here as the
\* parts splitn(2, '-') yields; k is base64url(ksync)
SyncKey == [kid |-> << "ts", << "b64url", "kxcs" >> >>, k |-> << "b64url", "ksync" >>]
\* A scoped key whose kid holds no '-': splitn yields one part
SyncKeyOnePartKid == [kid |-> << "kid" >>, k |-> << "b64url", "ksync" >>]
IV == "iv"

EmptyMap == << >>
OneEntry(k, v) == k :> v
HasKey(m, k) == k \in DOMAIN m

----------------------------------------------------------------------------
(* Encodings.  Each encoding wraps its input in a tagged pair, and its     *)
(* decoder accepts only that tag, so decoding a value of another encoding  *)
(* is an error and not the identity.                                       *)

IsTagged(x, tag) == Len(x) = 2 /\ x[1] = tag
Encode(tag, x) == << tag, x >>
Decode(tag, x, e) == IF IsTagged(x, tag) THEN Ok(x[2]) ELSE Err(e)

\* serde_json::to_string / from_str
to_string(v) == Encode("json", v)
from_str(s) == Decode("json", s, "JsonError")
\* base64::encode_config(_, URL_SAFE_NO_PAD) / decode_config
base64url_encode(b) == Encode("b64url", b)
base64url_decode(s) == Decode("b64url", s, "Base64Decode")
\* base64::encode / decode (standard alphabet)
base64_encode(b) == Encode("b64", b)
base64_decode(s) == Decode("b64", s, "Base64Decode")
\* hex::encode / decode
hex_encode(b) == Encode("hex", b)
hex_decode(s) == Decode("hex", s, "HexDecode")

----------------------------------------------------------------------------
(* commands/send_tab.rs *)

\* PrivateSendTabKeys::from_random, for the key pair the RNG draws
from_random(k) ==
    [public_key |-> << "pub", k >>, private_key |-> << "priv", k >>,
     auth_secret |-> << "auth", k >>]

\* Mutant: the projection keeps the private key
PublicSendTabKeys_with_private_key(internal) ==
    [public_key |-> base64url_encode(internal.public_key),
     auth_secret |-> base64url_encode(internal.auth_secret),
     private_key |-> base64url_encode(internal.private_key)]

\* impl From<PrivateSendTabKeys> for PublicSendTabKeys
PublicSendTabKeys(internal) ==
    [public_key |-> base64url_encode(internal.public_key),
     auth_secret |-> base64url_encode(internal.auth_secret)]

\* Mutant: the title and the url change places
single_tab_swapped(title, url) == [entries |-> << [title |-> url, url |-> title] >>]

\* SendTabPayload::single_tab
single_tab(title, url) == [entries |-> << [title |-> title, url |-> url] >>]

\* KeyBundle::hmac_string over the base64 text of the ciphertext
hmac_string(ksync, text) == << "hmac", ksync, text >>

\* Mutant: the kid is written in base64
keys_encrypt_kid_base64(public_keys, ksync, kxcs, iv) ==
    LET cleartext == to_string(public_keys)
        enc_bytes == << "aes", << ksync, iv, cleartext >> >>
        enc_base64 == base64_encode(enc_bytes)
    IN  [kid |-> base64_encode(kxcs), iv |-> base64_encode(iv),
         hmac |-> hmac_string(ksync, enc_base64), ciphertext |-> enc_base64]

\* PublicSendTabKeys::encrypt (KeyWrap encrypt)
keys_encrypt(public_keys, ksync, kxcs, iv) ==
    LET cleartext == to_string(public_keys)
        enc_bytes == << "aes", << ksync, iv, cleartext >> >>
        enc_base64 == base64_encode(enc_bytes)
    IN  [kid |-> hex_encode(kxcs), iv |-> base64_encode(iv),
         hmac |-> hmac_string(ksync, enc_base64), ciphertext |-> enc_base64]

\* PublicSendTabKeys::as_command_data
as_command_data(public_keys, kek, iv) ==
    to_string(keys_encrypt(public_keys, kek.ksync, kek.kxcs, iv))

\* KeyBundle::verify_hmac_string: the hmac is the one of the ciphertext text
\* under ksync
verify_hmac_string(ksync, hmac, ciphertext) == hmac = hmac_string(ksync, ciphertext)

\* Mutant: the hmac is not verified
keys_decrypt_unverified(bundle, ksync, kxcs) ==
    LET kid == hex_decode(bundle.kid)
        iv == base64_decode(bundle.iv)
        ciphertext == base64_decode(bundle.ciphertext)
    IN  IF ~kid.ok THEN kid
        ELSE IF kid.value /= kxcs THEN Err("MismatchedKeys")
        ELSE IF ~iv.ok THEN iv
        ELSE IF ~ciphertext.ok THEN ciphertext
        ELSE IF ~(IsTagged(ciphertext.value, "aes")
                  /\ ciphertext.value[2][1] = ksync
                  /\ ciphertext.value[2][2] = iv.value)
             THEN Err("CryptoError")
        ELSE from_str(ciphertext.value[2][3])

\* Mutant: the iv and the ciphertext are decoded before the hmac is verified
keys_decrypt_decode_first(bundle, ksync, kxcs) ==
    LET kid == hex_decode(bundle.kid)
        iv == base64_decode(bundle.iv)
        ciphertext == base64_decode(bundle.ciphertext)
    IN  IF ~kid.ok THEN kid
        ELSE IF kid.value /= kxcs THEN Err("MismatchedKeys")
        ELSE IF ~iv.ok THEN iv
        ELSE IF ~ciphertext.ok THEN ciphertext
        ELSE IF ~verify_hmac_string(ksync, bundle.hmac, bundle.ciphertext)
             THEN Err("HmacMismatch")
        ELSE IF ~(IsTagged(ciphertext.value, "aes")
                  /\ ciphertext.value[2][1] = ksync
                  /\ ciphertext.value[2][2] = iv.value)
             THEN Err("CryptoError")
        ELSE from_str(ciphertext.value[2][3])

\* Mutant: the hmac is verified before the kid is compared
keys_decrypt_hmac_first(bundle, ksync, kxcs) ==
    LET kid == hex_decode(bundle.kid)
        iv == base64_decode(bundle.iv)
        ciphertext == base64_decode(bundle.ciphertext)
    IN  IF ~verify_hmac_string(ksync, bundle.hmac, bundle.ciphertext)
             THEN Err("HmacMismatch")
        ELSE IF ~kid.ok THEN kid
        ELSE IF kid.value /= kxcs THEN Err("MismatchedKeys")
        ELSE IF ~iv.ok THEN iv
        ELSE IF ~ciphertext.ok THEN ciphertext
        ELSE IF ~(IsTagged(ciphertext.value, "aes")
                  /\ ciphertext.value[2][1] = ksync
                  /\ ciphertext.value[2][2] = iv.value)
             THEN Err("CryptoError")
        ELSE from_str(ciphertext.value[2][3])

\* SendTabKeysPayload::decrypt (KeyWrap decrypt)
keys_decrypt(bundle, ksync, kxcs) ==
    LET kid == hex_decode(bundle.kid)
        iv == base64_decode(bundle.iv)
        ciphertext == base64_decode(bundle.ciphertext)
    IN  IF ~kid.ok THEN kid
        ELSE IF kid.value /= kxcs THEN Err("MismatchedKeys")
        ELSE IF ~verify_hmac_string(ksync, bundle.hmac, bundle.ciphertext)
             THEN Err("HmacMismatch")
        ELSE IF ~iv.ok THEN iv
        ELSE IF ~ciphertext.ok THEN ciphertext
        ELSE IF ~(IsTagged(ciphertext.value, "aes")
                  /\ ciphertext.value[2][1] = ksync
                  /\ ciphertext.value[2][2] = iv.value)
             THEN Err("CryptoError")
        ELSE from_str(ciphertext.value[2][3])

\* Mutant: the public key and the auth secret change places
payload_encrypt_swapped(payload, keys) ==
    LET bytes == to_string(payload)
        public_key == base64url_decode(keys.public_key)
        auth_secret == base64url_decode(keys.auth_secret)
    IN  IF ~public_key.ok THEN public_key
        ELSE IF ~auth_secret.ok THEN auth_secret
        ELSE Ok([encrypted |-> base64url_encode(
                    << "ece", << auth_secret.value, public_key.value, bytes >> >>)])

\* SendTabPayload::encrypt
payload_encrypt(payload, keys) ==
    LET bytes == to_string(payload)
        public_key == base64url_decode(keys.public_key)
        auth_secret == base64url_decode(keys.auth_secret)
    IN  IF ~public_key.ok THEN public_key
        ELSE IF ~auth_secret.ok THEN auth_secret
        ELSE Ok([encrypted |-> base64url_encode(
                    << "ece", << public_key.value, auth_secret.value, bytes >> >>)])

\* Mutant: a record that does not authenticate is read all the same
payload_decrypt_unauthenticated(encrypted_payload, keys) ==
    LET encrypted == base64url_decode(encrypted_payload.encrypted)
    IN  IF ~encrypted.ok THEN encrypted
        ELSE IF ~IsTagged(encrypted.value, "ece") THEN Err("CryptoError")
        ELSE from_str(encrypted.value[2][3])

\* EncryptedSendTabPayload::decrypt
payload_decrypt(encrypted_payload, keys) ==
    LET encrypted == base64url_decode(encrypted_payload.encrypted)
    IN  IF ~encrypted.ok THEN encrypted
        ELSE IF ~(IsTagged(encrypted.value, "ece")
                  /\ IsTagged(keys.private_key, "priv")
                  /\ encrypted.value[2][1] = << "pub", keys.private_key[2] >>
                  /\ encrypted.value[2][2] = keys.auth_secret)
             THEN Err("CryptoError")
        ELSE from_str(encrypted.value[2][3])

\* Mutant: a target without the entry is sent the payload as it is
build_send_command_unsealed(kek, target_commands, send_tab_payload) ==
    IF ~HasKey(target_commands, COMMAND_NAME) THEN Ok(send_tab_payload)
    ELSE LET bundle == from_str(target_commands[COMMAND_NAME])
         IN  IF ~bundle.ok THEN bundle
             ELSE LET public_keys == keys_decrypt(bundle.value, kek.ksync, kek.kxcs)
                  IN  IF ~public_keys.ok THEN public_keys
                      ELSE payload_encrypt(send_tab_payload, public_keys.value)

\* build_send_command
build_send_command(kek, target_commands, send_tab_payload) ==
    IF ~HasKey(target_commands, COMMAND_NAME) THEN Err("UnsupportedCommand")
    ELSE LET bundle == from_str(target_commands[COMMAND_NAME])
         IN  IF ~bundle.ok THEN bundle
             ELSE LET public_keys == keys_decrypt(bundle.value, kek.ksync, kek.kxcs)
                  IN  IF ~public_keys.ok THEN public_keys
                      ELSE payload_encrypt(send_tab_payload, public_keys.value)

----------------------------------------------------------------------------
(* Arguments for the functions of commands/send_tab.rs: registration blobs *)
(* as KeyWrap encrypt makes them and as a peer or the relay may alter them, *)
(* sealed payloads as SendTabPayload::encrypt makes them and as they may    *)
(* arrive damaged.                                                          *)

Ksyncs == {"ksync", "ksync2"}
Kxcss == {"kxcs", "kxcs2"}
KEKs == [ksync : Ksyncs, kxcs : Kxcss]
\* The values KeyWrap wraps: the public keys of a device
WrappedValues == {PublicSendTabKeys(from_random(k)) : k \in KeyIds}
Blob(v, kek) == keys_encrypt(v, kek.ksync, kek.kxcs, IV)
Blobs == {Blob(v, kek) : v \in WrappedValues, kek \in KEKs}

OtherBlob == Blob(PublicSendTabKeys(from_random("kB")), [ksync |-> "ksync", kxcs |-> "kxcs"])
\* A blob with at most its kid, its hmac and its ciphertext altered: each
\* field as it was, the field of another blob, or text that is not in the
\* encoding of the field
AlteredBlobs(b) ==
    {[b EXCEPT !.kid = kid, !.hmac = hmac, !.ciphertext = ciphertext] :
        kid \in {b.kid, hex_encode("kxcs2"), base64_encode("kxcs")},
        hmac \in {b.hmac, hmac_string("ksync2", b.ciphertext), OtherBlob.hmac, << "hmac" >>},
        ciphertext \in {b.ciphertext, OtherBlob.ciphertext, hex_encode(<< "truncated" >>)}}
Bundles == UNION {AlteredBlobs(b) : b \in Blobs}
KeysDecryptArgs(bundle) ==
    {[fn |-> "keys_decrypt", bundle |-> bundle, ksync |-> kek.ksync, kxcs |-> kek.kxcs] :
        kek \in KEKs}

\* Payloads of one and of two tabs
Payloads ==
    {[entries |-> << [title |-> "t1", url |-> "u1"] >>],
     [entries |-> << [title |-> "t1", url |-> "u1"], [title |-> "t2", url |-> "u2"] >>]}
Sealed(p, k) == payload_encrypt(p, PublicSendTabKeys(from_random(k))).value
\* The bytes of a sealed payload, and what damage makes of them
SealedBytes(p, k) == base64url_decode(Sealed(p, k).encrypted).value
Damaged(p, k) ==
    {Sealed(p, k),
     [encrypted |-> base64url_encode(<< "truncated", SealedBytes(p, k) >>)],
     [encrypted |-> base64url_encode(<< "corrupted", SealedBytes(p, k) >>)],
     [encrypted |-> base64url_encode(
        << "ece", << SealedBytes(p, k)[2][1], << "auth", "forged" >>, to_string(p) >> >>)],
     [encrypted |-> base64_encode(SealedBytes(p, k))]}
\* The key pairs of a device, and one with the auth secret of another
KeyPairs ==
    {from_random(k) : k \in KeyIds}
    \cup {[from_random("kA") EXCEPT !.auth_secret = from_random("kB").auth_secret]}
PayloadDecryptArgs ==
    {[fn |-> "payload_decrypt", encrypted_payload |-> e, keys |-> keys] :
        e \in UNION {Damaged(p, k) : p \in Payloads, k \in KeyIds}, keys \in KeyPairs}

----------------------------------------------------------------------------
(* The relay (http_client.rs, the server side of FxAClient) *)

\* GET v1/account/devices: Vec<DeviceResponse>
DeviceList(directory) ==
    {[id |-> d, available_commands |-> directory[d]] : d \in DOMAIN directory}

\* The requests FxAClient builds: the bearer token and what goes with it
\* GET v1/account/device/commands?index=..[&limit=..]
PendingCommandsRequest(token, index, limit) ==
    [request |-> "pending_commands", token |-> token, index |-> index, limit |-> limit]
\* GET v1/account/devices
DevicesRequest(token) == [request |-> "devices", token |-> token]
\* POST v1/account/devices/invoke_command
InvokeCommandRequest(token, command, target, payload) ==
    [request |-> "invoke_command", token |-> token,
     body |-> [command |-> command, target |-> target, payload |-> payload]]
\* POST v1/account/device
UpdateDeviceRequest(token, update) ==
    [request |-> "update_device", token |-> token, body |-> update]

\* PendingCommand { index, data }
PendingCommand(i, data) == [index |-> i, data |-> data]

\* CommandData { command, payload, sender }
CommandData(command, payload, sender) ==
    [command |-> command, payload |-> payload, sender |-> sender]

\* PendingCommandsResponse { index, messages }, and the status of the request
Response(status, index, messages) ==
    [status |-> status, index |-> index, messages |-> messages]
NoResponse == Response("none", 0, << >>)

\* The stored commands whose index is at least `index`, in index order
RECURSIVE StoredFrom(_, _)
StoredFrom(store, index) ==
    IF index > Len(store) THEN << >>
    ELSE << PendingCommand(index, store[index]) >> \o StoredFrom(store, index + 1)

\* FxAClient::pending_commands against a relay that stores the commands it
\* was given: every stored command from `index` on, the batch index being
\* that of the last one; 404 while the account has no command history; any
\* request may fail.
pending_commands(store, index) ==
    LET messages == StoredFrom(store, IF index < 1 THEN 1 ELSE index)
    IN  {Response("failed", 0, << >>)}
        \cup (IF store = << >> THEN {Response("not_found", 0, << >>)} ELSE {})
        \cup (IF messages = << >>
              THEN {Response("ok", i, << >>) : i \in {index, Len(store)}}
              ELSE {Response("ok", messages[Len(messages)].index, messages)})

\* Payloads a relay can carry that are not sealed for this device
ForeignKeys == from_random("kX")
MalformedPayload == [garbage |-> "x"]
SealedFor(keys, tab) == payload_encrypt(single_tab(tab, tab), PublicSendTabKeys(keys)).value

\* Messages an untrusted relay may put in a response
UntrustedData ==
    {CommandData(COMMAND_NAME, SealedFor(from_random("kA"), 1), Some(PEER)),
     CommandData(COMMAND_NAME, SealedFor(from_random("kA"), 2), None),
     CommandData(COMMAND_NAME, SealedFor(ForeignKeys, 1), None),
     CommandData(COMMAND_NAME, MalformedPayload, Some(PEER)),
     CommandData(BOGUS, MalformedPayload, None)}
RECURSIVE SeqsUpTo(_, _)
SeqsUpTo(S, n) ==
    IF n = 0 THEN {<< >>}
    ELSE LET shorter == SeqsUpTo(S, n - 1)
         IN  shorter \cup {Append(q, x) : q \in {r \in shorter : Len(r) = n - 1}, x \in S}
\* The messages of a batch carry the indexes first, first + 1, ...; the session
\* reads no message index (device.rs 60-71), only the batch index
Indexed(data, first) == [n \in 1..Len(data) |-> PendingCommand(first + n - 1, data[n])]
UntrustedBatches == {Indexed(data, 1) : data \in SeqsUpTo(UntrustedData, MaxBatch)}

\* FxAClient::pending_commands against a relay that answers anything
pending_commands_untrusted(index) ==
    {Response("failed", 0, << >>), Response("not_found", 0, << >>)}
    \cup {Response("ok", i, m) : i \in 0..MaxIndex, m \in UntrustedBatches}

\* What a relay may list: the messages above and a message of a sender that
\* is no longer in the device list
ListedData ==
    UntrustedData
    \cup {CommandData(COMMAND_NAME, SealedFor(from_random("kA"), 1), Some(REMOVED))}

\* The orders in which a relay may list the messages of one batch
Orders(batch) ==
    {[n \in 1..Len(batch) |-> batch[p[n]]] :
        p \in {q \in [1..Len(batch) -> 1..Len(batch)] :
                   \A a, b \in 1..Len(batch) : a /= b => q[a] /= q[b]}}

\* FxAClient::pending_commands against a relay that holds the messages index,
\* index + 1, ... and lists them in any order; PendingCommandsResponse
\* (http_client.rs) is a Vec of messages, each with its own index
pending_commands_any_order(index) ==
    {Response("ok", index, << >>)}
    \cup UNION {{Response("ok", index + Len(data) - 1, m) :
                    m \in Orders(Indexed(data, index))} :
                data \in {d \in SeqsUpTo(ListedData, MaxBatch) :
                             d /= << >> /\ index + Len(d) - 1 <= MaxIndex}}

----------------------------------------------------------------------------
(* send_tab.rs, device.rs: dispatch *)

\* serde_json::from_value::<EncryptedSendTabPayload>
from_value(payload) ==
    IF "encrypted" \in DOMAIN payload THEN Ok(payload) ELSE Err("JsonError")

\* FirefoxAccount::handle_send_tab_command
handle_send_tab_command(sender, payload, cd) ==
    IF ~HasKey(cd, COMMAND_NAME) THEN Err("IllegalState")
    ELSE LET send_tab_key == from_str(cd[COMMAND_NAME])
             encrypted_payload == from_value(payload)
         IN  IF ~send_tab_key.ok THEN send_tab_key
             ELSE IF ~encrypted_payload.ok THEN encrypted_payload
             ELSE LET tab == payload_decrypt(encrypted_payload.value, send_tab_key.value)
                  IN  IF ~tab.ok THEN tab
                      ELSE Ok([sender |-> sender, tab |-> tab.value])

\* Mutant: a sender that the device list does not hold is an error
handle_command_sender_required(command_data, devices, cd) ==
    LET found == IF command_data.sender = None THEN {}
                 ELSE {d \in devices : d.id = Unwrap(command_data.sender)}
    IN  IF found = {} THEN Err("UnknownSender")
        ELSE IF command_data.command = COMMAND_NAME
        THEN handle_send_tab_command(Some(CHOOSE d \in found : TRUE),
                                     command_data.payload, cd)
        ELSE Err("UnknownCommand")

\* FirefoxAccount::handle_command
handle_command(command_data, devices, cd) ==
    LET found == IF command_data.sender = None THEN {}
                 ELSE {d \in devices : d.id = Unwrap(command_data.sender)}
        sender == IF found = {} THEN None ELSE Some(CHOOSE d \in found : TRUE)
    IN  IF command_data.command = COMMAND_NAME
        THEN handle_send_tab_command(sender, command_data.payload, cd)
        ELSE Err("UnknownCommand")

\* AccountEvent::TabReceived
TabReceived(v) == [event |-> "TabReceived", sender |-> v.sender, tab |-> v.tab]

\* Mutant: the first message whose dispatch fails ends the loop
RECURSIVE handle_commands_until_error(_, _, _)
handle_commands_until_error(messages, devices, cd) ==
    IF messages = << >> THEN << >>
    ELSE LET r == handle_command(Head(messages).data, devices, cd)
         IN  IF r.ok
             THEN << TabReceived(r.value) >>
                  \o handle_commands_until_error(Tail(messages), devices, cd)
             ELSE << >>

\* FirefoxAccount::handle_commands, once the device list is there: the loop
RECURSIVE handle_commands(_, _, _)
handle_commands(messages, devices, cd) ==
    IF messages = << >> THEN << >>
    ELSE LET r == handle_command(Head(messages).data, devices, cd)
             rest == handle_commands(Tail(messages), devices, cd)
         IN  IF r.ok THEN << TabReceived(r.value) >> \o rest ELSE rest

\* Mutant: the early return on an empty batch is missing
no_messages_never(response) == FALSE

\* device.rs 49: the batch holds no message
no_messages(response) == Len(response.messages) = 0

\* Mutant: the request names the mark itself
request_index_of_mark(last) == unwrap_or(last, 0)

\* The index poll_remote_commands asks for
request_index(last) == unwrap_or(last, 0) + 1

\* Mutant: the mark is the index of the last message of the batch
new_last_handled_command_of_message(response) ==
    Some(response.messages[Len(response.messages)].index)

\* The high-water mark poll_remote_commands stores after a batch
new_last_handled_command(response) == Some(response.index)

\* state_persistence::state_to_json / state_from_json
StateV2(token, keys, last, cd) ==
    [refresh_token |-> token, scoped_keys |-> keys,
     last_handled_command |-> last, commands_data |-> cd]
to_json(state) == to_string(state)

\* Mutant: the high-water mark is not read back
from_json_without_mark(data) ==
    LET doc == from_str(data).value
    IN  StateV2(doc.refresh_token, doc.scoped_keys, None,
                IF "commands_data" \in DOMAIN doc THEN doc.commands_data ELSE EmptyMap)

\* FirefoxAccount::from_json of a well-formed document: the fields as
\* #[derive(Deserialize)] reads them (lib.rs 68-79), an Option that is missing
\* being None and commands_data, #[serde(default)], being empty when missing
from_json(data) ==
    LET doc == from_str(data).value
    IN  StateV2(doc.refresh_token, doc.scoped_keys,
                IF "last_handled_command" \in DOMAIN doc
                THEN doc.last_handled_command ELSE None,
                IF "commands_data" \in DOMAIN doc THEN doc.commands_data ELSE EmptyMap)

\* FirefoxAccount::maybe_call_persist_callback: what the disk holds afterwards
maybe_call_persist_callback(cb, state, disk) == IF cb THEN to_json(state) ELSE disk
CallbackCalls(cb) == IF cb THEN 1 ELSE 0

\* The urls of the tabs of a list of events
Tabs(events) == {events[i].tab.entries[1].url : i \in 1..Len(events)}

\* oldsync_key.kid.splitn(2, '-').collect::<Vec<_>>() (send_tab.rs 71): the
\* kid is held as its parts
splitn_kid(kid) == kid

\* FirefoxAccount::sync_keys_as_send_tab_kek
sync_keys_as_send_tab_kek(keys) ==
    IF keys = None THEN Err("NoScopedKey")
    ELSE LET oldsync_key == Unwrap(keys)
             ksync == base64url_decode(oldsync_key.k)
             parts == splitn_kid(oldsync_key.kid)
             kxcs == base64url_decode(parts[2])
         IN  IF ~ksync.ok THEN ksync
             ELSE IF Len(parts) < 2 THEN Panic("panic: index out of bounds")
             ELSE IF ~kxcs.ok THEN kxcs
             ELSE Ok([ksync |-> ksync.value, kxcs |-> kxcs.value])

\* DeviceUpdateRequest: display_name, device_type and available_commands are
\* Option<Option<_>>: absent (None), null (Some(None)) or a value
\* (Some(Some(v))); push_subscription is Option<PushSubscription>
DeviceUpdateRequest(display_name, device_type, push_subscription, available_commands) ==
    [display_name |-> display_name, device_type |-> device_type,
     push_subscription |-> push_subscription, available_commands |-> available_commands]

\* PushSubscription { endpoint, public_key, auth_key }
PushSubscription(endpoint, public_key, auth_key) ==
    [endpoint |-> endpoint, public_key |-> public_key, auth_key |-> auth_key]

\* DeviceUpdateRequestBuilder
builder_new == DeviceUpdateRequest(None, None, None, None)
builder_push_subscription(b, push_subscription) ==
    [b EXCEPT !.push_subscription = Some(push_subscription)]
builder_available_commands(b, available_commands) ==
    [b EXCEPT !.available_commands = Some(Some(available_commands))]
builder_clear_available_commands(b) == [b EXCEPT !.available_commands = Some(None)]
\* Mutant: setting the display name also clears the commands
builder_display_name_clearing(b, display_name) ==
    [b EXCEPT !.display_name = Some(Some(display_name)), !.available_commands = Some(None)]

builder_display_name(b, display_name) == [b EXCEPT !.display_name = Some(Some(display_name))]
builder_clear_display_name(b) == [b EXCEPT !.display_name = Some(None)]
builder_device_type(b, device_type) == [b EXCEPT !.device_type = Some(Some(device_type))]
build(b) ==
    DeviceUpdateRequest(b.display_name, b.device_type, b.push_subscription,
                        b.available_commands)

\* The names under which #[derive(Serialize)] writes the fields that are
\* written: skip_serializing_if = "Option::is_none" leaves an absent field
\* out, and a flattened Option that is None writes nothing
SerializedNames(update) ==
    (IF update.display_name = None THEN {} ELSE {"name"})
    \cup (IF update.device_type = None THEN {} ELSE {"type"})
    \cup (IF update.push_subscription = None THEN {}
          ELSE {"pushCallback", "pushPublicKey", "pushAuthKey"})
    \cup (IF update.available_commands = None THEN {} ELSE {"availableCommands"})

\* serde_json::to_string(&update) (http_client.rs 201): a JSON object whose
\* members are null (None) or a value (Some(v))
update_to_string(update) ==
    to_string([name \in SerializedNames(update) |->
        IF name = "name" THEN Unwrap(update.display_name)
        ELSE IF name = "type" THEN Unwrap(update.device_type)
        ELSE IF name = "availableCommands" THEN Unwrap(update.available_commands)
        ELSE IF name = "pushCallback" THEN Some(Unwrap(update.push_subscription).endpoint)
        ELSE IF name = "pushPublicKey" THEN Some(Unwrap(update.push_subscription).public_key)
        ELSE Some(Unwrap(update.push_subscription).auth_key)])

\* device.rs 89-117: the requests the session's calls build
set_display_name_request == build(builder_display_name(builder_new, "name"))
clear_display_name_request == build(builder_clear_display_name(builder_new))
set_push_subscription_request ==
    build(builder_push_subscription(builder_new,
            PushSubscription("endpoint", "public_key", "auth_key")))
register_command_request(command, value) ==
    build(builder_available_commands(builder_new, OneEntry(command, value)))
\* Mutant: unregister_command sends a request that names no command map
unregister_command_request_unchanged(command) == build(builder_new)

\* FirefoxAccount::unregister_command: an empty map, whatever the command
unregister_command_request(command) ==
    build(builder_available_commands(builder_new, EmptyMap))
\* FirefoxAccount::clear_commands
clear_commands_request ==
    build(builder_clear_available_commands(builder_new))
DeviceUpdates ==
    [set_display_name |-> set_display_name_request,
     clear_display_name |-> clear_display_name_request,
     set_push_subscription |-> set_push_subscription_request]

\* POST v1/account/device, as the relay applies it to the device's commands
ApplyUpdate(commands, update) ==
    IF update.available_commands = None THEN commands
    ELSE IF Unwrap(update.available_commands) = None THEN EmptyMap
    ELSE Unwrap(Unwrap(update.available_commands))

----------------------------------------------------------------------------
(* Initial state: FirefoxAccount::with_config, or from_json of an account  *)
(* that completed the OAuth flow; nothing polled, nothing registered.      *)

PeerRegistration ==
    as_command_data(PublicSendTabKeys(from_random("kP")),
                    sync_keys_as_send_tab_kek(Some(SyncKey)).value, IV)

\* The account is used by one caller and no Mutex is involved
NoThreads ==
    /\ mutex = None /\ main_thread = << "none", "none" >> /\ poll_thread = "none"
    /\ evts = << >> /\ callback = "persist_fxa_state"

\* No places database is open
NoPlaces ==
    /\ moz_places = {} /\ moz_places_tombstones = {}
    /\ moz_updateoriginsinsert_temp = {} /\ moz_updateoriginsdelete_temp = {}
    /\ moz_historyvisits = {}

Idle ==
    /\ pc = "idle" /\ op = "none" /\ requested = 0 /\ pending = NoResponse
    /\ account_events = << >> /\ result = Ok(Unit) /\ calls = << >>
    /\ requests = << >>
    /\ persist_calls = 0

Init ==
    /\ \E account \in {<< None, None >>, << Some(Token), None >>,
                        << Some(Token), Some(SyncKey) >>} :
            refresh_token = account[1] /\ scoped_keys = account[2]
    /\ last_handled_command = None
    /\ commands_data = EmptyMap
    /\ persist_callback = FALSE
    /\ persisted = to_json(StateV2(refresh_token, scoped_keys, None, EmptyMap))
    /\ relay_commands = << >>
    /\ relay_devices = (OWN :> EmptyMap) @@ (PEER :> OneEntry(COMMAND_NAME, PeerRegistration))
    /\ Idle
    /\ consumed = {} /\ owed = None
    /\ fn_args = None /\ fn_value = None
    /\ NoThreads /\ NoPlaces

\* The accounts an OAuth flow can leave: OAuthTokenResponse has refresh_token
\* and keys_jwe as two Options (http_client.rs 403-409)
InitCommands ==
    /\ \E account \in {<< None, None >>, << Some(Token), None >>,
                        << None, Some(SyncKey) >>, << Some(Token), Some(SyncKey) >>} :
            refresh_token = account[1] /\ scoped_keys = account[2]
    /\ last_handled_command = None
    /\ commands_data = EmptyMap
    /\ persist_callback = FALSE
    /\ persisted = to_json(StateV2(refresh_token, scoped_keys, None, EmptyMap))
    /\ relay_commands = << >>
    /\ relay_devices = (OWN :> EmptyMap) @@ (PEER :> OneEntry(COMMAND_NAME, PeerRegistration))
    /\ Idle
    /\ consumed = {} /\ owed = None
    /\ fn_args = None /\ fn_value = None
    /\ NoThreads /\ NoPlaces

\* An account whose device may advertise a registration blob that the local
\* state does not hold the keys of: ensure_send_tab_registered ran with no
\* callback registered and the process ended (Crash) before the state was
\* stored
InitDelivery ==
    /\ refresh_token = Some(Token) /\ scoped_keys = Some(SyncKey)
    /\ last_handled_command = None
    /\ commands_data = EmptyMap
    /\ persist_callback = FALSE
    /\ persisted = to_json(StateV2(refresh_token, scoped_keys, None, EmptyMap))
    /\ relay_commands = << >>
    /\ \E registered \in {EmptyMap,
                           OneEntry(COMMAND_NAME,
                               as_command_data(PublicSendTabKeys(from_random("kA")),
                                   sync_keys_as_send_tab_kek(Some(SyncKey)).value, IV))} :
           relay_devices = (OWN :> registered)
                           @@ (PEER :> OneEntry(COMMAND_NAME, PeerRegistration))
    /\ Idle
    /\ consumed = {} /\ owed = None
    /\ fn_args = None /\ fn_value = None
    /\ NoThreads /\ NoPlaces

\* The same accounts, and one whose scoped key came with a kid of one part
\* (the kid is the server's string, taken as it is)
InitKek ==
    /\ \E account \in {<< Some(Token), None >>, << Some(Token), Some(SyncKey) >>,
                        << Some(Token), Some(SyncKeyOnePartKid) >>} :
            refresh_token = account[1] /\ scoped_keys = account[2]
    /\ last_handled_command = None
    /\ commands_data = EmptyMap
    /\ persist_callback = FALSE
    /\ persisted = to_json(StateV2(refresh_token, scoped_keys, None, EmptyMap))
    /\ relay_commands = << >>
    /\ relay_devices = (OWN :> EmptyMap) @@ (PEER :> OneEntry(COMMAND_NAME, PeerRegistration))
    /\ Idle
    /\ consumed = {} /\ owed = None
    /\ fn_args = None /\ fn_value = None
    /\ NoThreads /\ NoPlaces

session == << refresh_token, scoped_keys, last_handled_command, commands_data >>
relay == << relay_commands, relay_devices >>
locals == << pc, op, requested, pending, account_events, result, calls, requests,
             persist_calls >>
history == << consumed, owed >>
codec == << fn_args, fn_value >>
threads == << mutex, main_thread, poll_thread, evts, callback >>
places == << moz_places, moz_places_tombstones, moz_updateoriginsinsert_temp,
             moz_updateoriginsdelete_temp, moz_historyvisits >>

----------------------------------------------------------------------------
(* lib.rs: the persistence callback *)

\* FirefoxAccount::register_persist_callback
RegisterPersistCallback ==
    /\ pc = "idle" /\ ~persist_callback
    /\ persist_callback' = TRUE
    /\ UNCHANGED << session, persisted, relay, locals, history >>
    /\ UNCHANGED << codec, threads, places >>

\* FirefoxAccount::unregister_persist_callback
UnregisterPersistCallback ==
    /\ pc = "idle" /\ persist_callback
    /\ persist_callback' = FALSE
    /\ UNCHANGED << session, persisted, relay, locals, history >>
    /\ UNCHANGED << codec, threads, places >>

----------------------------------------------------------------------------
(* device.rs: poll_remote_commands *)

\* FirefoxAccount::handle_push_message is a call of poll_remote_commands
PollEntries == {"poll_remote_commands"}

\* poll_remote_commands up to the listing (device.rs 40-51): the token, the
\* request for index last + 1, the early return on an empty batch.  `responses`
\* are the responses the relay may send for that index.
poll_list(entry, responses) ==
    /\ pc = "idle"
    /\ op' = entry
    /\ account_events' = << >>
    /\ persist_calls' = 0
    /\ IF refresh_token = None
       THEN /\ result' = Err("NoRefreshToken")
            /\ pc' = "returned"
            /\ UNCHANGED << requested, pending, calls, requests >>
       ELSE \E response \in responses :
            /\ requested' = request_index(last_handled_command)
            /\ calls' = << "pending_commands" >>
            /\ requests' = << PendingCommandsRequest(Unwrap(refresh_token),
                                    request_index(last_handled_command), None) >>
            /\ pending' = response
            /\ IF response.status = "not_found" THEN
                    result' = Err("RemoteError404") /\ pc' = "returned"
               ELSE IF response.status /= "ok" THEN
                    result' = Err("RequestFailed") /\ pc' = "returned"
               ELSE IF no_messages(response) THEN
                    result' = Ok(NoEvents) /\ pc' = "returned"
               ELSE result' = result /\ pc' = "listed"
    /\ UNCHANGED << session, persist_callback, persisted, relay, history >>
    /\ UNCHANGED << codec, threads, places >>

Stored(index) == pending_commands(relay_commands, index)

PollList ==
    \E entry \in PollEntries :
        poll_list(entry, Stored(request_index(last_handled_command)))

PollListUntrusted ==
    \E entry \in PollEntries :
        poll_list(entry, pending_commands_untrusted(request_index(last_handled_command)))

PollListAnyOrder ==
    \E entry \in PollEntries :
        poll_list(entry, pending_commands_any_order(request_index(last_handled_command)))

\* A batch a poll retrieved and did not take past persistence: the index it
\* asked for and the index of the last message it got
Owed(cause) ==
    Some([cause |-> cause, requested |-> requested,
          last |-> pending.messages[Len(pending.messages)].index])

\* Mutant: the mark is set to the batch index as soon as the batch is there,
\* before the device list is fetched
poll_handle_commands_mark_first ==
    /\ pc = "listed"
    /\ calls' = Append(calls, "devices")
    /\ requests' = Append(requests, DevicesRequest(Unwrap(refresh_token)))
    /\ last_handled_command' = new_last_handled_command(pending)
    /\ \/ /\ result' = Err("RequestFailed")
          /\ pc' = "returned"
          /\ UNCHANGED account_events
       \/ /\ account_events' =
                handle_commands(pending.messages, DeviceList(relay_devices), commands_data)
          /\ pc' = "handled"
          /\ UNCHANGED result
    /\ UNCHANGED << refresh_token, scoped_keys, commands_data, persist_callback,
                    persisted, relay, op, requested, pending, persist_calls >>
    /\ UNCHANGED << codec, threads, places >>

\* Mutant: the mark is set and the callback invoked before the dispatch
poll_handle_commands_persist_first ==
    /\ pc = "listed"
    /\ calls' = Append(calls, "devices")
    /\ requests' = Append(requests, DevicesRequest(Unwrap(refresh_token)))
    /\ \/ /\ result' = Err("RequestFailed")
          /\ pc' = "returned"
          /\ UNCHANGED << account_events, last_handled_command, persisted >>
       \/ /\ last_handled_command' = new_last_handled_command(pending)
          /\ persisted' = maybe_call_persist_callback(persist_callback,
                StateV2(refresh_token, scoped_keys, last_handled_command', commands_data),
                persisted)
          /\ account_events' =
                handle_commands(pending.messages, DeviceList(relay_devices), commands_data)
          /\ pc' = "handled"
          /\ UNCHANGED result
    /\ UNCHANGED << refresh_token, scoped_keys, commands_data, persist_callback,
                    relay, op, requested, pending, persist_calls >>
    /\ UNCHANGED << codec, threads, places >>

\* handle_commands (device.rs 60-71): the device list, then the loop; a failed
\* device list ends the poll with that error
poll_handle_commands ==
    /\ pc = "listed"
    /\ calls' = Append(calls, "devices")
    /\ requests' = Append(requests, DevicesRequest(Unwrap(refresh_token)))
    /\ \/ /\ result' = Err("RequestFailed")
          /\ pc' = "returned"
          /\ UNCHANGED account_events
       \/ /\ account_events' =
                handle_commands(pending.messages, DeviceList(relay_devices), commands_data)
          /\ pc' = "handled"
          /\ UNCHANGED result
    /\ UNCHANGED << session, persist_callback, persisted, relay, op, requested,
                    pending, persist_calls >>
    /\ UNCHANGED << codec, threads, places >>

\* The same, the dropped batch recorded
PollHandleCommands ==
    /\ poll_handle_commands
    /\ owed' = IF pc' = "returned" THEN Owed("devices") ELSE owed
    /\ UNCHANGED consumed

\* The same, nothing recorded
PollHandleCommandsUntrusted == poll_handle_commands /\ UNCHANGED history

\* Mutant: the callback is invoked before the mark is set
PollAdvance_after_callback ==
    /\ pc = "handled"
    /\ persisted' = maybe_call_persist_callback(persist_callback,
            StateV2(refresh_token, scoped_keys, last_handled_command, commands_data),
            persisted)
    /\ persist_calls' = persist_calls + CallbackCalls(persist_callback)
    /\ last_handled_command' = new_last_handled_command(pending)
    /\ result' = Ok(account_events)
    /\ pc' = "returned"
    /\ UNCHANGED << refresh_token, scoped_keys, commands_data, persist_callback,
                    relay, op, requested, pending, account_events, calls, requests,
                    history >>
    /\ UNCHANGED << codec, threads, places >>

\* device.rs 54: the high-water mark becomes the batch index
PollAdvance ==
    /\ pc = "handled"
    /\ last_handled_command' = new_last_handled_command(pending)
    /\ pc' = "advanced"
    /\ UNCHANGED << refresh_token, scoped_keys, commands_data, persist_callback,
                    persisted, relay, op, requested, pending, account_events,
                    result, calls, requests, persist_calls, history >>
    /\ UNCHANGED << codec, threads, places >>

\* Mutant: the call of the callback returns whatever the callback does
callback_returns_always(cb, kind) == TRUE

\* lib.rs 162: cb.call(json) is a plain call, the operation goes on when the
\* callback has returned.  A callback that locks the Mutex its caller holds
\* does not return (std::sync::Mutex is not reentrant).
callback_returns(cb, kind) == cb => kind /= "reentrant"

\* device.rs 55-56: the callback, then the events are returned
PollPersist ==
    /\ pc = "advanced"
    /\ persist_calls' = persist_calls + CallbackCalls(persist_callback)
    /\ IF callback_returns(persist_callback, callback)
       THEN /\ persisted' = maybe_call_persist_callback(persist_callback,
                    StateV2(refresh_token, scoped_keys, last_handled_command,
                            commands_data), persisted)
            /\ result' = Ok(account_events)
            /\ pc' = "returned"
       ELSE /\ pc' = "callback"
            /\ UNCHANGED << persisted, result >>
    /\ UNCHANGED << session, persist_callback, relay, op, requested, pending,
                    account_events, calls, requests, history >>
    /\ UNCHANGED << codec, threads, places >>

\* The operation returns to its caller and the account is free again
return_to_caller ==
    /\ pc = "returned"
    /\ pc' = "idle" /\ op' = "none" /\ requested' = 0 /\ pending' = NoResponse
    /\ account_events' = << >> /\ result' = Ok(Unit) /\ calls' = << >>
    /\ requests' = << >>
    /\ persist_calls' = 0
    /\ UNCHANGED << session, persist_callback, persisted, relay >>
    /\ UNCHANGED << codec, places >>

\* The caller takes the result: the events of a poll are handled, each tab
\* opened (examples/devices_api.rs 85-105).  A poll that did not itself drop
\* its batch ends the wait for a dropped one.
Return ==
    /\ return_to_caller
    /\ UNCHANGED threads
    /\ consumed' = IF op \in PollEntries /\ result.ok
                   THEN consumed \cup Tabs(result.value) ELSE consumed
    /\ owed' = IF op \in PollEntries /\ ~(~result.ok /\ pending.messages /= << >>)
               THEN None ELSE owed

\* The caller takes the result; what it does with it is not followed
ReturnUntrusted == return_to_caller /\ UNCHANGED << history, threads >>

\* The process dies at any point and is started again: from_json of what the
\* callback last wrote (lib.rs 82-91, 115-118); no callback is registered yet
Crash ==
    /\ LET state == from_json(persisted)
       IN  /\ refresh_token' = state.refresh_token
           /\ scoped_keys' = state.scoped_keys
           /\ last_handled_command' = state.last_handled_command
           /\ commands_data' = state.commands_data
    /\ persist_callback' = FALSE
    /\ owed' = IF pc \in {"handled", "advanced"} THEN Owed("crash") ELSE None
    /\ pc' = "idle" /\ op' = "none" /\ requested' = 0 /\ pending' = NoResponse
    /\ account_events' = << >> /\ result' = Ok(Unit) /\ calls' = << >>
    /\ requests' = << >>
    /\ persist_calls' = 0
    /\ UNCHANGED << persisted, relay, consumed >>
    /\ UNCHANGED << codec, threads, places >>

----------------------------------------------------------------------------
(* send_tab.rs, device.rs: the foreground operations *)

\* The calls that sent the requests
RECURSIVE Calls(_)
Calls(network) ==
    IF network = << >> THEN << >> ELSE << Head(network).request >> \o Calls(Tail(network))

\* What an operation that ran to its end leaves behind; `network` are the
\* requests it made
Returned(name, res, network, callbacks) ==
    /\ pc' = "returned" /\ op' = name /\ result' = res
    /\ calls' = Calls(network)
    /\ requests' = network
    /\ persist_calls' = callbacks
    /\ UNCHANGED << requested, pending, account_events >>

\* Mutant: the cached key material is not looked up
has_cached_keys_never(cd) == FALSE

\* send_tab.rs 16-18: commands_data holds key material for the command
has_cached_keys(cd) == HasKey(cd, COMMAND_NAME)

\* Mutant: the callback is not invoked from ensure_send_tab_registered
ensure_persist_calls_never(cached, cb) == 0

\* Mutant: the callback is invoked whether or not keys were created
ensure_persist_calls_always(cached, cb) == CallbackCalls(cb)

\* send_tab.rs 19-26: the callback is invoked in the arm that creates the keys
ensure_persist_calls(cached, cb) == IF cached THEN 0 ELSE CallbackCalls(cb)

\* FirefoxAccount::ensure_send_tab_registered
EnsureSendTabRegistered ==
    /\ pc = "idle"
    /\ \E k \in KeyIds, delivered \in BOOLEAN :
        LET cached == has_cached_keys(commands_data)
            own_keys == IF cached THEN from_str(commands_data[COMMAND_NAME]).value
                        ELSE from_random(k)
            cd == IF cached THEN commands_data
                  ELSE OneEntry(COMMAND_NAME, to_string(own_keys)) @@ commands_data
            callbacks == ensure_persist_calls(cached, persist_callback)
            kek == sync_keys_as_send_tab_kek(scoped_keys)
            command_data == as_command_data(PublicSendTabKeys(own_keys), kek.value, IV)
            update == register_command_request(COMMAND_NAME, command_data)
            sent == << UpdateDeviceRequest(Unwrap(refresh_token), update) >>
        IN  /\ commands_data' = cd
            /\ persisted' = IF cached THEN persisted
                            ELSE maybe_call_persist_callback(persist_callback,
                                    StateV2(refresh_token, scoped_keys,
                                            last_handled_command, cd), persisted)
            /\ IF ~kek.ok THEN
                    /\ Returned("ensure_send_tab_registered", kek, << >>, callbacks)
                    /\ UNCHANGED relay_devices
               ELSE IF refresh_token = None THEN
                    /\ Returned("ensure_send_tab_registered", Err("NoRefreshToken"),
                                << >>, callbacks)
                    /\ UNCHANGED relay_devices
               ELSE IF ~delivered THEN
                    /\ Returned("ensure_send_tab_registered", Err("RequestFailed"),
                                sent, callbacks)
                    /\ UNCHANGED relay_devices
               ELSE /\ Returned("ensure_send_tab_registered", Ok(Unit),
                                sent, callbacks)
                    /\ relay_devices' = [relay_devices EXCEPT
                                            ![OWN] = ApplyUpdate(@, update)]
    /\ UNCHANGED << refresh_token, scoped_keys, last_handled_command,
                    persist_callback, relay_commands, history >>
    /\ UNCHANGED << codec, threads, places >>

Targets == {PEER, "dev-123"}

\* FirefoxAccount::send_tab.  The relay puts the command in the target's
\* queue, which is not this device's.
SendTab ==
    /\ pc = "idle"
    /\ \E target_device_id \in Targets, listed \in BOOLEAN, delivered \in BOOLEAN :
        LET tab == "https://example.com"
            devices == DeviceList(relay_devices)
            target == {d \in devices : d.id = target_device_id}
            kek == sync_keys_as_send_tab_kek(scoped_keys)
            command_payload ==
                build_send_command(kek.value,
                                   (CHOOSE d \in target : TRUE).available_commands,
                                   single_tab(tab, tab))
            listing == << DevicesRequest(Unwrap(refresh_token)) >>
            sent == Append(listing,
                        InvokeCommandRequest(Unwrap(refresh_token), COMMAND_NAME,
                                             target_device_id, command_payload.value))
        IN  IF refresh_token = None THEN
                 /\ Returned("send_tab", Err("NoRefreshToken"), << >>, 0)
                 /\ UNCHANGED relay_commands
            ELSE IF ~listed THEN
                 /\ Returned("send_tab", Err("RequestFailed"), listing, 0)
                 /\ UNCHANGED relay_commands
            ELSE IF target = {} THEN
                 /\ Returned("send_tab", Err("UnknownTargetDevice"), listing, 0)
                 /\ UNCHANGED relay_commands
            ELSE IF ~kek.ok THEN
                 /\ Returned("send_tab", kek, listing, 0)
                 /\ UNCHANGED relay_commands
            ELSE IF ~command_payload.ok THEN
                 /\ Returned("send_tab", command_payload, listing, 0)
                 /\ UNCHANGED relay_commands
            ELSE IF ~delivered THEN
                 /\ Returned("send_tab", Err("RequestFailed"), sent, 0)
                 /\ UNCHANGED relay_commands
            ELSE /\ Returned("send_tab", Ok(Unit), sent, 0)
                 /\ UNCHANGED relay_commands
    /\ UNCHANGED << session, persist_callback, persisted, relay_devices, history >>
    /\ UNCHANGED << codec, threads, places >>

\* FirefoxAccount::set_display_name, clear_display_name, set_push_subscription,
\* each through update_device
UpdateDevice ==
    /\ pc = "idle"
    /\ \E name \in DOMAIN DeviceUpdates, delivered \in BOOLEAN :
        IF refresh_token = None THEN
             /\ Returned(name, Err("NoRefreshToken"), << >>, 0)
             /\ UNCHANGED relay_devices
        ELSE IF ~delivered THEN
             /\ Returned(name, Err("RequestFailed"),
                         << UpdateDeviceRequest(Unwrap(refresh_token), DeviceUpdates[name]) >>, 0)
             /\ UNCHANGED relay_devices
        ELSE /\ Returned(name, Ok(Unit),
                         << UpdateDeviceRequest(Unwrap(refresh_token), DeviceUpdates[name]) >>, 0)
             /\ relay_devices' = [relay_devices EXCEPT
                                     ![OWN] = ApplyUpdate(@, DeviceUpdates[name])]
    /\ UNCHANGED << session, persist_callback, persisted, relay_commands, history >>
    /\ UNCHANGED << codec, threads, places >>

\* Mutant: a session without token goes on with an empty token
get_refresh_token_or_empty(token) == Ok(IF token = None THEN "" ELSE Unwrap(token))

\* FirefoxAccount::get_refresh_token
get_refresh_token(token) ==
    IF token = None THEN Err("NoRefreshToken") ELSE Ok(Unwrap(token))

\* The commands and values register_command is called with: the open-uri
\* command with a registration blob, and another command
CommandNames == {COMMAND_NAME, BOGUS}
CommandValues == {PeerRegistration, to_string([value |-> "v"])}
CommandUpdates ==
    {[fn |-> "register_command", command |-> c, value |-> v,
      update |-> register_command_request(c, v)] : c \in CommandNames, v \in CommandValues}
    \cup {[fn |-> "unregister_command", command |-> c, value |-> None,
           update |-> unregister_command_request(c)] : c \in CommandNames}
    \cup {[fn |-> "clear_commands", command |-> None, value |-> None,
           update |-> clear_commands_request]}

\* FirefoxAccount::register_command, unregister_command, clear_commands, each
\* through update_device; fn_args is the call and fn_value the commands the
\* device advertised before it
UpdateCommands ==
    /\ pc = "idle"
    /\ \E call \in CommandUpdates, delivered \in BOOLEAN :
        LET token == get_refresh_token(refresh_token)
            sent == << UpdateDeviceRequest(token.value, call.update) >>
        IN  /\ fn_args' = Some([fn |-> call.fn, command |-> call.command,
                                 value |-> call.value])
            /\ fn_value' = Some(relay_devices[OWN])
            /\ IF ~token.ok THEN
                     /\ Returned(call.fn, token, << >>, 0)
                     /\ UNCHANGED relay_devices
               ELSE IF ~delivered THEN
                     /\ Returned(call.fn, Err("RequestFailed"), sent, 0)
                     /\ UNCHANGED relay_devices
               ELSE /\ Returned(call.fn, Ok(Unit), sent, 0)
                    /\ relay_devices' = [relay_devices EXCEPT
                                            ![OWN] = ApplyUpdate(@, call.update)]
    /\ UNCHANGED << session, persist_callback, persisted, relay_commands, history >>
    /\ UNCHANGED << threads, places >>

----------------------------------------------------------------------------
(* Peers *)

\* Pages are numbered: page n has the url n and the title -n
TitleOf(url) == 0 - url

\* A peer invokes a command on this device through the relay: a tab sealed
\* by build_send_command for the keys this device advertises, an open-uri
\* command with a payload that is no ciphertext, or a command this device does
\* not know.  The relay gives it the next index.
\* No step of an operation in progress reads the stored commands, so a command
\* that arrives during an operation is one that arrives right after it.
PeerInvoke ==
    /\ pc = "idle"
    /\ Len(relay_commands) < MaxCommands
    /\ \E kind \in {"sealed", "malformed", "bogus"} :
        LET sender == IF kind \in {"sealed", "malformed"} THEN Some(PEER) ELSE None
            tab == Len(relay_commands) + 1
            kek == sync_keys_as_send_tab_kek(Some(SyncKey)).value
            sealed == build_send_command(kek, relay_devices[OWN],
                                         single_tab(TitleOf(tab), tab))
            data == IF kind = "sealed" THEN CommandData(COMMAND_NAME, sealed.value, sender)
                    ELSE IF kind = "malformed"
                         THEN CommandData(COMMAND_NAME, MalformedPayload, sender)
                    ELSE CommandData(BOGUS, MalformedPayload, sender)
        IN  /\ kind = "sealed" => sealed.ok
            /\ relay_commands' = Append(relay_commands, data)
    /\ UNCHANGED << session, persist_callback, persisted, relay_devices, locals, history >>
    /\ UNCHANGED << codec, threads, places >>

----------------------------------------------------------------------------
(* commands/send_tab.rs: the functions applied to the arguments drawn *)

Applied(name, out) == Some([fn |-> name, out |-> out])

\* SendTabKeysPayload::decrypt
KeysDecrypt ==
    /\ fn_args /= None /\ Unwrap(fn_args).fn = "keys_decrypt" /\ fn_value = None
    /\ LET a == Unwrap(fn_args)
       IN  fn_value' = Applied("keys_decrypt", keys_decrypt(a.bundle, a.ksync, a.kxcs))
    /\ UNCHANGED << session, persist_callback, persisted, relay, locals, history, fn_args,
                    threads, places >>

\* EncryptedSendTabPayload::decrypt
PayloadDecrypt ==
    /\ fn_args /= None /\ Unwrap(fn_args).fn = "payload_decrypt" /\ fn_value = None
    /\ LET a == Unwrap(fn_args)
       IN  fn_value' = Applied("payload_decrypt", payload_decrypt(a.encrypted_payload, a.keys))
    /\ UNCHANGED << session, persist_callback, persisted, relay, locals, history, fn_args,
                    threads, places >>

\* FirefoxAccount::handle_commands on the one command carrying the payload, by
\* a device whose cached keys are the key pair
HandlePayload ==
    /\ fn_args /= None /\ Unwrap(fn_args).fn = "payload_decrypt" /\ fn_value = None
    /\ LET a == Unwrap(fn_args)
           message == PendingCommand(1, CommandData(COMMAND_NAME, a.encrypted_payload, None))
       IN  fn_value' = Applied("handle_commands",
                handle_commands(<< message >>, DeviceList(relay_devices),
                                OneEntry(COMMAND_NAME, to_string(a.keys))))
    /\ UNCHANGED << session, persist_callback, persisted, relay, locals, history, fn_args,
                    threads, places >>

\* What a peer may have registered for the open-uri command: nothing, or a
\* blob; the blob handed to KeyWrap decrypt is the one the peer registered
InitSend ==
    /\ \E account \in {<< Some(Token), None >>, << Some(Token), Some(SyncKey) >>} :
            refresh_token = account[1] /\ scoped_keys = account[2]
    /\ last_handled_command = None
    /\ commands_data = EmptyMap
    /\ persist_callback = FALSE
    /\ persisted = to_json(StateV2(refresh_token, scoped_keys, None, EmptyMap))
    /\ relay_commands = << >>
    /\ \/ \E bundle \in Bundles :
            /\ relay_devices = (OWN :> EmptyMap)
                    @@ (PEER :> OneEntry(COMMAND_NAME, to_string(bundle)))
            /\ fn_args \in {Some(a) : a \in KeysDecryptArgs(bundle)}
       \/ /\ relay_devices = (OWN :> EmptyMap) @@ (PEER :> EmptyMap)
          /\ fn_args \in {Some(a) : a \in PayloadDecryptArgs}
    /\ Idle
    /\ consumed = {} /\ owed = None
    /\ fn_value = None
    /\ NoThreads /\ NoPlaces

----------------------------------------------------------------------------
(* examples/devices_api.rs: main, the thread it spawns, and the Mutex that *)
(* holds the account once it is shared                                     *)

MAIN == "main"
POLL == "poll"
\* The calls the menu makes on the account (devices_api.rs 124, 128, 145), and
\* one the example does not make: a caller replacing the callback by one that
\* calls into the session
MenuCalls == {"set_display_name", "get_devices", "send_tab"}
OtherCalls == {"register_persist_callback"}
At(position, call) == << position, call >>

\* Mutant: lock() returns whether or not another thread holds the Mutex
lock_returns_always(m) == TRUE

\* Mutex::lock (devices_api.rs 86, 124, 128, 145): returns when no thread
\* holds the Mutex
lock_returns(m) == m = None

\* Mutant: the guard is bound to a variable of the loop body and lives until
\* the end of the iteration
guard_after_statement_kept(m) == m

\* devices_api.rs 85-89, 124, 128, 145-148: the MutexGuard is a temporary of
\* the statement that makes the call and is dropped at the end of it
guard_after_statement(m) == None

\* GET v1/account/devices as a Vec<Device>
Devices(directory) ==
    << [id |-> OWN, available_commands |-> directory[OWN]],
       [id |-> PEER, available_commands |-> directory[PEER]] >>

\* FirefoxAccount::get_devices
GetDevices ==
    /\ pc = "idle"
    /\ \E listed \in BOOLEAN :
        IF refresh_token = None THEN
             Returned("get_devices", Err("NoRefreshToken"), << >>, 0)
        ELSE IF ~listed THEN
             Returned("get_devices", Err("RequestFailed"),
                      << DevicesRequest(Unwrap(refresh_token)) >>, 0)
        ELSE Returned("get_devices", Ok(Devices(relay_devices)),
                      << DevicesRequest(Unwrap(refresh_token)) >>, 0)
    /\ UNCHANGED << session, persist_callback, persisted, relay, history >>
    /\ UNCHANGED << codec, threads, places >>

\* devices_api.rs 75: load_or_create_fxa_creds has returned an account with a
\* token, keys cached by an earlier run or none, and persist_fxa_state
\* registered; no Mutex yet and no second thread
InitThreads ==
    /\ refresh_token = Some(Token)
    /\ scoped_keys \in {None, Some(SyncKey)}
    /\ last_handled_command = None
    /\ commands_data \in {EmptyMap, OneEntry(COMMAND_NAME, to_string(from_random("kA")))}
    /\ persist_callback = TRUE
    /\ persisted = to_json(StateV2(refresh_token, scoped_keys, None, commands_data))
    /\ relay_commands = << >>
    /\ relay_devices = (OWN :> EmptyMap) @@ (PEER :> OneEntry(COMMAND_NAME, PeerRegistration))
    /\ Idle
    /\ consumed = {} /\ owed = None
    /\ fn_args = None /\ fn_value = None
    /\ mutex = None /\ main_thread = At("startup", "ensure_send_tab_registered")
    /\ poll_thread = "none" /\ evts = << >> /\ callback = "persist_fxa_state"
    /\ NoPlaces

\* devices_api.rs 78: ensure_send_tab_registered on the account main owns
MainEnsure ==
    /\ main_thread = At("startup", "ensure_send_tab_registered")
    /\ EnsureSendTabRegistered

\* devices_api.rs 78-83, 112: unwrap() of the result (a panic of main ends the
\* process), then the account goes into Arc<Mutex<_>>, the thread is spawned
\* and main enters the menu loop
MainSpawn ==
    /\ main_thread = At("startup", "ensure_send_tab_registered")
    /\ return_to_caller
    /\ IF result.ok
       THEN main_thread' = At("menu", "none") /\ poll_thread' = "loop"
       ELSE main_thread' = At("exited", "none") /\ poll_thread' = "none"
    /\ UNCHANGED << mutex, evts, callback, history >>

Running == main_thread[1] /= "exited"

\* devices_api.rs 117-119, 151: a menu entry is chosen, or Quit
MainSelect ==
    /\ main_thread = At("menu", "none")
    /\ \/ \E call \in {"set_display_name", "get_devices"} \cup OtherCalls :
            main_thread' = At("lock", call)
       \/ main_thread' = At("exited", "none")
    /\ UNCHANGED << session, persist_callback, persisted, relay, locals, history,
                    codec, places, mutex, poll_thread, evts, callback >>

\* devices_api.rs 124, 128, 145: acct.lock().unwrap()
MainLock ==
    /\ main_thread[1] = "lock"
    /\ lock_returns(mutex)
    /\ mutex' = Some(MAIN)
    /\ main_thread' = At("locked", main_thread[2])
    /\ UNCHANGED << session, persist_callback, persisted, relay, locals, history,
                    codec, places, poll_thread, evts, callback >>

\* A caller registers a callback that calls into the session
RegisterReentrantCallback ==
    /\ pc = "idle"
    /\ persist_callback' = TRUE
    /\ callback' = "reentrant"
    /\ Returned("register_persist_callback", Ok(Unit), << >>, 0)
    /\ UNCHANGED << session, persisted, relay, history, codec, places,
                    mutex, main_thread, poll_thread, evts >>

\* devices_api.rs 124, 128, 147: the call made through the guard
MainCall ==
    /\ main_thread[1] = "locked"
    /\ \/ main_thread[2] = "set_display_name" /\ UpdateDevice /\ op' = "set_display_name"
       \/ main_thread[2] = "get_devices" /\ GetDevices
       \/ main_thread[2] = "send_tab" /\ SendTab
       \/ main_thread[2] = "register_persist_callback" /\ RegisterReentrantCallback

\* devices_api.rs 124, 128, 148: unwrap() of the result and the end of the
\* statement: the guard is dropped; a failed call is a panic of main, which
\* ends the process; after get_devices a target is chosen and send_tab follows
MainUnlock ==
    /\ main_thread[1] = "locked"
    /\ return_to_caller
    /\ mutex' = guard_after_statement(mutex)
    /\ main_thread' = IF ~result.ok THEN At("exited", "none")
                      ELSE IF main_thread[2] = "get_devices" THEN At("lock", "send_tab")
                      ELSE At("menu", "none")
    /\ UNCHANGED << poll_thread, evts, callback, history >>

\* devices_api.rs 85-87: acct.lock().unwrap() in the spawned thread
PollLock ==
    /\ Running
    /\ poll_thread = "loop"
    /\ lock_returns(mutex)
    /\ mutex' = Some(POLL)
    /\ poll_thread' = "locked"
    /\ UNCHANGED << session, persist_callback, persisted, relay, locals, history,
                    codec, places, main_thread, evts, callback >>

\* devices_api.rs 88: poll_remote_commands through the guard
PollCall ==
    /\ Running
    /\ poll_thread = "locked"
    /\ \/ PollList
       \/ PollHandleCommands
       \/ PollAdvance
       \/ PollPersist

\* devices_api.rs 89: unwrap_or(vec![]) and the end of the let statement
PollUnlock ==
    /\ Running
    /\ poll_thread = "locked"
    /\ return_to_caller
    /\ mutex' = guard_after_statement(mutex)
    /\ evts' = IF result.ok THEN result.value ELSE << >>
    /\ poll_thread' = "events"
    /\ owed' = IF ~(~result.ok /\ pending.messages /= << >>) THEN None ELSE owed
    /\ UNCHANGED << main_thread, callback, consumed >>

\* devices_api.rs 90-105: each tab of each event is opened; unwrap() of a
\* failed webbrowser::open is a panic of the spawned thread
PollEvents ==
    /\ Running
    /\ poll_thread = "events"
    /\ \/ /\ consumed' = consumed \cup Tabs(evts)
          /\ poll_thread' = "sleep"
       \/ /\ evts /= << >>
          /\ poll_thread' = "panicked"
          /\ UNCHANGED consumed
    /\ evts' = << >>
    /\ UNCHANGED << session, persist_callback, persisted, relay, locals, owed,
                    codec, places, mutex, main_thread, callback >>

\* devices_api.rs 106: thread::sleep returns
PollSleep ==
    /\ Running
    /\ poll_thread = "sleep"
    /\ poll_thread' = "loop"
    /\ UNCHANGED << session, persist_callback, persisted, relay, locals, history,
                    codec, places, mutex, main_thread, evts, callback >>

----------------------------------------------------------------------------
(* lib.rs: to_json and from_json, applied as tests::test_serialize_deserialize *)
(* applies them                                                             *)

Marks == {None} \cup {Some(i) : i \in 0..MaxIndex}
CommandsData ==
    {EmptyMap} \cup {OneEntry(COMMAND_NAME, to_string(from_random(k))) : k \in KeyIds}
\* The states an account can hold; with_config gives the one with nothing set
Accounts ==
    {StateV2(t, k, l, cd) : t \in {None, Some(Token)}, k \in {None, Some(SyncKey)},
                            l \in Marks, cd \in CommandsData}
\* A file written before commands_data was part of the state
WithoutCommandsData(state) ==
    [refresh_token |-> state.refresh_token, scoped_keys |-> state.scoped_keys,
     last_handled_command |-> state.last_handled_command]
StoredDocuments ==
    {to_string(WithoutCommandsData(a)) : a \in {b \in Accounts : b.commands_data = EmptyMap}}

\* An account as with_config or an earlier run left it, or as from_json reads
\* it from a stored document
InitState ==
    /\ \E a \in Accounts \cup {from_json(d) : d \in StoredDocuments} :
        /\ refresh_token = a.refresh_token /\ scoped_keys = a.scoped_keys
        /\ last_handled_command = a.last_handled_command
        /\ commands_data = a.commands_data
    /\ persist_callback \in BOOLEAN
    /\ persisted = to_json(StateV2(refresh_token, scoped_keys, last_handled_command,
                                   commands_data))
    /\ relay_commands = << >>
    /\ relay_devices = (OWN :> EmptyMap) @@ (PEER :> EmptyMap)
    /\ Idle
    /\ consumed = {} /\ owed = None
    /\ fn_args = None /\ fn_value = None
    /\ NoThreads /\ NoPlaces

\* FirefoxAccount::to_json
ToJson ==
    /\ pc = "idle" /\ fn_value = None
    /\ fn_value' = Applied("to_json",
            to_json(StateV2(refresh_token, scoped_keys, last_handled_command,
                            commands_data)))
    /\ UNCHANGED << session, persist_callback, persisted, relay, locals, history,
                    fn_args, threads, places >>

\* The account is dropped and FirefoxAccount::from_json builds another from
\* the text to_json gave (lib.rs 82-91, 115-118): no callback is registered
FromJson ==
    /\ pc = "idle" /\ fn_args = None
    /\ fn_value /= None /\ Unwrap(fn_value).fn = "to_json"
    /\ LET data == Unwrap(fn_value).out
           state == from_json(data)
       IN  /\ refresh_token' = state.refresh_token
           /\ scoped_keys' = state.scoped_keys
           /\ last_handled_command' = state.last_handled_command
           /\ commands_data' = state.commands_data
           /\ fn_args' = Some([fn |-> "from_json", data |-> data])
    /\ persist_callback' = FALSE
    /\ fn_value' = None
    /\ UNCHANGED << persisted, relay, locals, history, threads, places >>

----------------------------------------------------------------------------
(* http_client.rs: the requests DeviceUpdateRequestBuilder builds *)

DisplayNames == {"name", "other name"}
DeviceTypes == {"desktop", "mobile"}
PushSubscriptions == {PushSubscription("endpoint", "public_key", "auth_key")}
AvailableCommands == {EmptyMap, OneEntry(COMMAND_NAME, PeerRegistration)}

\* What the methods for one field make of a builder
WithDisplayName(b) ==
    {b, builder_clear_display_name(b)} \cup {builder_display_name(b, n) : n \in DisplayNames}
WithDeviceType(b) == {b} \cup {builder_device_type(b, t) : t \in DeviceTypes}
WithPushSubscription(b) ==
    {b} \cup {builder_push_subscription(b, p) : p \in PushSubscriptions}
WithAvailableCommands(b) ==
    {b, builder_clear_available_commands(b)}
    \cup {builder_available_commands(b, m) : m \in AvailableCommands}

\* Every request new(), any of the methods and build() give
Buildable ==
    {build(b4) : b4 \in UNION {WithAvailableCommands(b3) : b3 \in
        UNION {WithPushSubscription(b2) : b2 \in
            UNION {WithDeviceType(b1) : b1 \in WithDisplayName(builder_new)}}}}

\* Every value of the struct: what the builder builds, and a device_type of
\* Some(None), which the type admits and no method of the builder sets
Expressible == Buildable \cup {[r EXCEPT !.device_type = Some(None)] : r \in Buildable}

\* The fields of a device update and the three things the body can say of one
UpdateFields == {"name", "type", "pushCallback", "availableCommands"}
FieldStates == {"absent", "null", "value"}
\* What a serialized body says of a field
FieldState(body, field) ==
    IF field \notin DOMAIN from_str(body).value THEN "absent"
    ELSE IF from_str(body).value[field] = None THEN "null"
    ELSE "value"

\* A field and what the body is to say of it
InitUpdate ==
    /\ refresh_token = Some(Token) /\ scoped_keys = Some(SyncKey)
    /\ last_handled_command = None
    /\ commands_data = EmptyMap
    /\ persist_callback = FALSE
    /\ persisted = to_json(StateV2(refresh_token, scoped_keys, None, EmptyMap))
    /\ relay_commands = << >>
    /\ relay_devices = (OWN :> EmptyMap) @@ (PEER :> OneEntry(COMMAND_NAME, PeerRegistration))
    /\ Idle
    /\ consumed = {} /\ owed = None
    /\ fn_args \in {Some([fn |-> "update", field |-> f, state |-> st]) :
                        f \in UpdateFields, st \in FieldStates}
    /\ fn_value = None
    /\ NoThreads /\ NoPlaces

\* A request is made whose body says it, if the struct has such a value, and
\* serialized as update_device serializes it
BuildUpdate ==
    /\ fn_args /= None /\ Unwrap(fn_args).fn = "update" /\ fn_value = None
    /\ LET want == Unwrap(fn_args)
           fit == {r \in Expressible :
                        FieldState(update_to_string(r), want.field) = want.state}
       IN  IF fit = {} THEN fn_value' = Applied("update", None)
           ELSE \E r \in fit : fn_value' = Applied("update", Some(update_to_string(r)))
    /\ UNCHANGED << session, persist_callback, persisted, relay, locals, history,
                    fn_args, threads, places >>

----------------------------------------------------------------------------
(* device.rs 40-46 at the width of its integers.  last_handled_command and  *)
(* the index of PendingCommandsResponse are u64; a u64 is held here as four *)
(* 16-bit limbs, most significant first.                                    *)

LimbValues == {0, 1, 2^16 - 1}
U64 == {<< a, b, c, d >> : a \in LimbValues, b \in LimbValues, c \in LimbValues, d \in LimbValues}
U64_ZERO == << 0, 0, 0, 0 >>
U64_MAX == << 2^16 - 1, 2^16 - 1, 2^16 - 1, 2^16 - 1 >>

\* x + 1 on limbs, and whether the carry leaves the most significant limb
RECURSIVE Increment(_)
Increment(x) ==
    IF x = << >> THEN [value |-> << >>, carry |-> TRUE]
    ELSE LET upper == SubSeq(x, 1, Len(x) - 1)
             low == x[Len(x)]
         IN  IF low + 1 < 2^16
             THEN [value |-> Append(upper, low + 1), carry |-> FALSE]
             ELSE [value |-> Append(Increment(upper).value, 0),
                   carry |-> Increment(upper).carry]

\* last_command_index + 1 on u64 (device.rs 46): with overflow checks (debug
\* builds) an overflow panics, without them (release builds) it wraps
add_one_u64(x) ==
    IF ~Increment(x).carry THEN {Ok(Increment(x).value)}
    ELSE {Panic("panic: attempt to add with overflow"), Ok(Increment(x).value)}

\* device.rs 40, 46: last_handled_command.unwrap_or(0) + 1
request_index_u64(last) == add_one_u64(IF last = None THEN U64_ZERO ELSE Unwrap(last))

\* The mark is what a response installed (device.rs 54: any index: u64 the
\* relay answers), or none
InitIndex ==
    /\ refresh_token = Some(Token) /\ scoped_keys = Some(SyncKey)
    /\ last_handled_command = None
    /\ commands_data = EmptyMap
    /\ persist_callback = FALSE
    /\ persisted = to_json(StateV2(refresh_token, scoped_keys, None, EmptyMap))
    /\ relay_commands = << >>
    /\ relay_devices = (OWN :> EmptyMap) @@ (PEER :> OneEntry(COMMAND_NAME, PeerRegistration))
    /\ Idle
    /\ consumed = {} /\ owed = None
    /\ fn_args \in {Some([fn |-> "request_index", last |-> last]) :
                        last \in {None} \cup {Some(x) : x \in U64}}
    /\ fn_value = None
    /\ NoThreads /\ NoPlaces

\* poll_remote_commands up to the index it asks for
RequestIndex ==
    /\ fn_value = None
    /\ \E out \in request_index_u64(Unwrap(fn_args).last) :
           fn_value' = Applied("request_index", out)
    /\ UNCHANGED fn_args
    /\ UNCHANGED << session, persist_callback, persisted, relay, locals, history,
                    threads, places >>

-----------------------------------------------------------------------------
(* places/src/db/schema.rs: moz_places, moz_places_tombstones and the TEMP  *)
(* triggers init installs on a connection.  fn_args is the last statement  *)
(* the connection executed and fn_value the tombstone table before it.     *)

MaxPlaces == 2
MaxFrecencyDelta == 1
MaxVisits == 2

Guids == {"guid1", "guid2"}
Urls == {<< "http://", "example.com" >>, << "https://", "example.org" >>}
Frecencies == {-1, 1}

\* get_prefix(url), get_host_and_port(url) of the origin triggers
get_prefix(url) == url[1]
get_host_and_port(url) == url[2]

MAX(a, b) == IF a >= b THEN a ELSE b

\* INTEGER PRIMARY KEY: the rowid of a new row is one more than the largest
last_insert_rowid(table) ==
    IF table = {} THEN 1
    ELSE (CHOOSE id \in {r.id : r \in table} : \A r \in table : r.id <= id) + 1

Statement(sql, guid) == Some([fn |-> sql, guid |-> guid])

\* moz_places_afterinsert_trigger_tombstone with the DELETE left out
afterinsert_trigger_tombstone_absent(tombstones, new) == tombstones

\* moz_places_afterinsert_trigger_tombstone:
\* DELETE FROM moz_places_tombstones WHERE guid = NEW.guid
afterinsert_trigger_tombstone(tombstones, new) ==
    {guid \in tombstones : guid /= new.guid}

\* moz_places_afterinsert_trigger_origins: INSERT OR IGNORE, place_id is the
\* primary key
afterinsert_trigger_origins(temp, new) ==
    IF \E r \in temp : r.place_id = new.id THEN temp
    ELSE temp \cup {[place_id |-> new.id, prefix |-> get_prefix(new.url),
                     host |-> get_host_and_port(new.url),
                     frecency |-> new.frecency]}

\* moz_places_afterdelete_trigger_origins: the upsert of the (prefix, host) row
afterdelete_trigger_origins(temp, old) ==
    LET same(r) == r.prefix = get_prefix(old.url) /\ r.host = get_host_and_port(old.url)
    IN  IF ~\E r \in temp : same(r)
        THEN temp \cup {[prefix |-> get_prefix(old.url),
                         host |-> get_host_and_port(old.url),
                         frecency_delta |-> 0 - MAX(old.frecency, 0)]}
        ELSE IF old.frecency > 0
        THEN {IF same(r) THEN [r EXCEPT !.frecency_delta = @ - old.frecency] ELSE r :
                  r \in temp}
        ELSE temp

\* a delete trigger that wrote a tombstone for the deleted row
afterdelete_tombstones_written(tombstones, old) == tombstones \cup {old.guid}

\* the triggers AFTER DELETE ON moz_places name moz_updateoriginsdelete_temp
\* only: moz_places_tombstones is as it was
afterdelete_tombstones(tombstones, old) == tombstones

\* EXCLUDED_VISIT_TYPES
EXCLUDED_VISIT_TYPES == {0, 4, 7, 8, 9}

\* visit_type INTEGER NOT NULL: the types desktop knows and 0
VisitTypes == 0..9
\* is_local INTEGER NOT NULL, read as a boolean by the triggers
IsLocals == {0, 1}
VisitDates == {1}

\* an SQL boolean as the integer the arithmetic of the triggers adds
Bool(b) == IF b THEN 1 ELSE 0
Truthy(x) == x /= 0

\* (SELECT visit_date FROM moz_historyvisits WHERE place_id = :id AND
\* [NOT] is_local ORDER BY visit_date DESC LIMIT 1), IFNULL(..., 0)
latest_visit_date(visits, place_id, local) ==
    LET dates == {v.visit_date : v \in {w \in visits : /\ w.place_id = place_id
                                                       /\ Truthy(w.is_local) = local}}
    IN  IF dates = {} THEN 0
        ELSE CHOOSE d \in dates : \A e \in dates : e <= d

\* the after-insert trigger without the test of the visit type
historyvisits_afterinsert_trigger_any_type(table, new) ==
    {IF r.id = new.place_id
     THEN [r EXCEPT
             !.visit_count_remote = @ + Bool(~Truthy(new.is_local)),
             !.visit_count_local = @ + Bool(Truthy(new.is_local)),
             !.last_visit_date_local =
                 MAX(@, IF Truthy(new.is_local) THEN new.visit_date ELSE 0),
             !.last_visit_date_remote =
                 MAX(@, IF Truthy(new.is_local) THEN 0 ELSE new.visit_date)]
     ELSE r : r \in table}

\* moz_historyvisits_afterinsert_trigger
historyvisits_afterinsert_trigger(table, new) ==
    {IF r.id = new.place_id
     THEN [r EXCEPT
             !.visit_count_remote =
                 @ + Bool(new.visit_type \notin EXCLUDED_VISIT_TYPES /\ ~Truthy(new.is_local)),
             !.visit_count_local =
                 @ + Bool(new.visit_type \notin EXCLUDED_VISIT_TYPES /\ Truthy(new.is_local)),
             !.last_visit_date_local =
                 MAX(@, IF Truthy(new.is_local) THEN new.visit_date ELSE 0),
             !.last_visit_date_remote =
                 MAX(@, IF Truthy(new.is_local) THEN 0 ELSE new.visit_date)]
     ELSE r : r \in table}

\* moz_historyvisits_afterdelete_trigger: visits is the table after the row
\* went
historyvisits_afterdelete_trigger(table, visits, old) ==
    {IF r.id = old.place_id
     THEN [r EXCEPT
             !.visit_count_local =
                 @ - Bool(old.visit_type \notin EXCLUDED_VISIT_TYPES /\ Truthy(old.is_local)),
             !.visit_count_remote =
                 @ - Bool(old.visit_type \notin EXCLUDED_VISIT_TYPES /\ ~Truthy(old.is_local)),
             !.last_visit_date_local = latest_visit_date(visits, old.place_id, TRUE),
             !.last_visit_date_remote = latest_visit_date(visits, old.place_id, FALSE)]
     ELSE r : r \in table}

\* FOREIGN KEY(place_id) REFERENCES moz_places(id) ON DELETE CASCADE: the
\* visits of a deleted place go with it (their delete triggers find no row of
\* moz_places to update)
on_delete_cascade(visits, old) == {v \in visits : v.place_id /= old.id}

OtherState ==
    UNCHANGED << session, persist_callback, persisted, relay, locals, history, threads >>

\* INSERT INTO moz_places (guid, url, url_hash[, frecency]) VALUES (...): guid
\* is UNIQUE, so the statement fails, and changes nothing, for a guid in use
InsertPlaceFrom(guids, urls, frecencies) ==
    \E guid \in guids, url \in urls, frecency \in frecencies :
        LET new == [id |-> last_insert_rowid(moz_places), guid |-> guid,
                    url |-> url, frecency |-> frecency,
                    visit_count_local |-> 0, visit_count_remote |-> 0,
                    last_visit_date_local |-> 0, last_visit_date_remote |-> 0]
        IN  /\ guid \notin {r.guid : r \in moz_places}
            /\ new.id <= MaxPlaces
            /\ moz_places' = moz_places \cup {new}
            /\ moz_places_tombstones' =
                   afterinsert_trigger_tombstone(moz_places_tombstones, new)
            /\ moz_updateoriginsinsert_temp' =
                   afterinsert_trigger_origins(moz_updateoriginsinsert_temp, new)
            /\ UNCHANGED << moz_updateoriginsdelete_temp, moz_historyvisits >>
            /\ fn_args' = Statement("INSERT INTO moz_places", guid)
            /\ fn_value' = Some(moz_places_tombstones)
            /\ OtherState

InsertPlace == InsertPlaceFrom(Guids, Urls, Frecencies)

\* INSERT INTO moz_places (guid, url, url_hash) VALUES (...): frecency takes
\* the default of the column, -1
InsertPlaceDefaults == InsertPlaceFrom(Guids, {<< "http://", "example.com" >>}, {-1})

\* DELETE FROM moz_places WHERE id = :id
DeletePlace ==
    \E old \in moz_places :
        LET temp == afterdelete_trigger_origins(moz_updateoriginsdelete_temp, old)
        IN  /\ \A r \in temp : 0 - r.frecency_delta <= MaxFrecencyDelta
            /\ moz_places' = moz_places \ {old}
            /\ moz_updateoriginsdelete_temp' = temp
            /\ moz_places_tombstones' =
                   afterdelete_tombstones(moz_places_tombstones, old)
            /\ moz_historyvisits' = on_delete_cascade(moz_historyvisits, old)
            /\ UNCHANGED moz_updateoriginsinsert_temp
            /\ fn_args' = Statement("DELETE FROM moz_places", old.guid)
            /\ fn_value' = Some(moz_places_tombstones)
            /\ OtherState

\* INSERT INTO moz_places_tombstones VALUES (:guid): guid is the primary key
InsertTombstone ==
    \E guid \in Guids :
        /\ guid \notin moz_places_tombstones
        /\ moz_places_tombstones' = moz_places_tombstones \cup {guid}
        /\ UNCHANGED << moz_places, moz_updateoriginsinsert_temp,
                        moz_updateoriginsdelete_temp, moz_historyvisits >>
        /\ fn_args' = Statement("INSERT INTO moz_places_tombstones", guid)
        /\ fn_value' = Some(moz_places_tombstones)
        /\ OtherState

\* INSERT INTO moz_historyvisits (is_local, place_id, visit_date, visit_type)
\* VALUES (...): the foreign key asks for the place to exist
InsertVisit ==
    \E is_local \in IsLocals, place \in moz_places, visit_date \in VisitDates,
       visit_type \in VisitTypes :
        LET new == [id |-> last_insert_rowid(moz_historyvisits), is_local |-> is_local,
                    place_id |-> place.id, visit_date |-> visit_date,
                    visit_type |-> visit_type]
        IN  /\ new.id <= MaxVisits
            /\ moz_historyvisits' = moz_historyvisits \cup {new}
            /\ moz_places' = historyvisits_afterinsert_trigger(moz_places, new)
            /\ UNCHANGED << moz_places_tombstones, moz_updateoriginsinsert_temp,
                            moz_updateoriginsdelete_temp >>
            /\ fn_args' = Statement("INSERT INTO moz_historyvisits", place.guid)
            /\ fn_value' = Some(moz_places_tombstones)
            /\ OtherState

\* DELETE FROM moz_historyvisits WHERE id = :id
DeleteVisit ==
    \E old \in moz_historyvisits :
        LET visits == moz_historyvisits \ {old}
        IN  /\ moz_historyvisits' = visits
            /\ moz_places' = historyvisits_afterdelete_trigger(moz_places, visits, old)
            /\ UNCHANGED << moz_places_tombstones, moz_updateoriginsinsert_temp,
                            moz_updateoriginsdelete_temp >>
            /\ fn_args' = Some([fn |-> "DELETE FROM moz_historyvisits",
                               guid |-> (CHOOSE r \in moz_places : r.id = old.place_id).guid])
            /\ fn_value' = Some(moz_places_tombstones)
            /\ OtherState

\* PlacesDb::open_in_memory: create and init on an empty database
InitPlaces ==
    /\ refresh_token = None /\ scoped_keys = None
    /\ last_handled_command = None
    /\ commands_data = EmptyMap
    /\ persist_callback = FALSE
    /\ persisted = to_json(StateV2(None, None, None, EmptyMap))
    /\ relay_commands = << >>
    /\ relay_devices = (OWN :> EmptyMap) @@ (PEER :> OneEntry(COMMAND_NAME, PeerRegistration))
    /\ Idle
    /\ consumed = {} /\ owed = None
    /\ fn_args = None /\ fn_value = None
    /\ NoThreads
    /\ NoPlaces

-----------------------------------------------------------------------------
(* Specifications *)

SessionOperations ==
    \/ RegisterPersistCallback
    \/ UnregisterPersistCallback
    \/ EnsureSendTabRegistered
    \/ SendTab
    \/ UpdateDevice
    \/ PollAdvance
    \/ PollPersist

\* The relay stores the commands it is given and lists them faithfully; peers
\* invoke commands; the process may crash and restart
Next ==
    \/ SessionOperations
    \/ PollList
    \/ PollHandleCommands
    \/ Return
    \/ PeerInvoke
    \/ Crash

Spec == Init /\ [][Next]_vars

\* One run of the process against a relay that answers a command listing with
\* anything
NextUntrusted ==
    \/ SessionOperations
    \/ PollListUntrusted
    \/ PollHandleCommandsUntrusted
    \/ ReturnUntrusted

SpecUntrusted == Init /\ [][NextUntrusted]_vars

\* One run of the process against a relay that lists the messages it holds
\* in any order
NextAnyOrder ==
    \/ SessionOperations
    \/ PollListAnyOrder
    \/ PollHandleCommandsUntrusted
    \/ ReturnUntrusted

SpecAnyOrder == Init /\ [][NextAnyOrder]_vars

\* Every operation of device.rs and send_tab.rs, the crate's own
\* register_command, unregister_command and clear_commands included, on an
\* account no peer sends to
NextCommands ==
    \/ RegisterPersistCallback
    \/ EnsureSendTabRegistered
    \/ SendTab
    \/ UpdateDevice
    \/ GetDevices
    \/ UpdateCommands
    \/ PollList
    \/ ReturnUntrusted

SpecCommands == InitCommands /\ [][NextCommands]_vars

\* One run of the process, without a crash, against the relay that stores
\* what peers send
NextDelivery ==
    \/ RegisterPersistCallback
    \/ EnsureSendTabRegistered
    \/ PollList
    \/ PollHandleCommands
    \/ PollAdvance
    \/ PollPersist
    \/ Return
    \/ PeerInvoke

SpecDelivery == InitDelivery /\ [][NextDelivery]_vars

\* The operations on accounts whose scoped key may have a kid of one part
SpecKek == InitKek /\ [][NextCommands]_vars

NextIndex == RequestIndex
SpecIndex == InitIndex /\ [][NextIndex]_vars

\* The sending side: send_tab towards what a peer registered, and the
\* functions of commands/send_tab.rs on the arguments drawn
NextSend ==
    \/ SendTab
    \/ ReturnUntrusted
    \/ KeysDecrypt
    \/ PayloadDecrypt
    \/ HandlePayload

SpecSend == InitSend /\ [][NextSend]_vars

\* The example program: main and the thread it spawns share the account
\* through the Mutex, against a relay that stores what peers send
NextThreads ==
    \/ MainEnsure
    \/ MainSpawn
    \/ MainSelect
    \/ MainLock
    \/ MainCall
    \/ MainUnlock
    \/ PollLock
    \/ PollCall
    \/ PollUnlock
    \/ PollEvents
    \/ PollSleep
    \/ (Running /\ PeerInvoke)

SpecThreads == InitThreads /\ [][NextThreads]_vars

\* The two threads under a fair scheduler.  A thread that can take a step
\* takes it (WF).  The spawned thread releases the Mutex at the end of the
\* poll statement and then sleeps a second (devices_api.rs 106) before it
\* asks for the Mutex again: a main thread blocked in lock() is woken in one
\* of these intervals, which is strong fairness of MainLock.
SpecThreadsFair ==
    /\ SpecThreads
    /\ SF_vars(MainLock)
    /\ WF_vars(MainCall)
    /\ WF_vars(PollCall)
    /\ WF_vars(PollUnlock)

\* to_json, from_json of its text, to_json again
NextState ==
    \/ ToJson
    \/ FromJson

SpecState == InitState /\ [][NextState]_vars

\* The device-update requests the builder can build
NextUpdate == BuildUpdate

SpecUpdate == InitUpdate /\ [][NextUpdate]_vars

\* Inserts into and deletes from moz_historyvisits, for the places inserted
NextVisits == InsertPlaceDefaults \/ InsertVisit \/ DeleteVisit
SpecVisits == InitPlaces /\ [][NextVisits]_vars

NextPlaces == InsertPlace \/ DeletePlace \/ InsertTombstone
SpecPlaces == InitPlaces /\ [][NextPlaces]_vars

----------------------------------------------------------------------------
(* Claims *)

InPoll == op \in PollEntries
\* The poll in progress got an empty batch
EmptyBatch == InPoll /\ pending.status = "ok" /\ pending.messages = << >>
\* The poll in progress got messages and returned its events
BatchDone == InPoll /\ pc = "returned" /\ result.ok /\ pending.messages /= << >>
LastMessage(response) == response.messages[Len(response.messages)]
OnDisk == from_json(persisted)

\* C1: a poll whose listing returns no message returns Ok(no events) after the
\* one listing request (no device list), with no callback invocation and with
\* the session, the disk and the relay as they were, whatever batch index the
\* response carries; when it returns, the account is exactly as before the poll.
C1_EmptyPollIsNoOp ==
    [][ /\ (pc = "idle" /\ EmptyBatch')
            => /\ pc' = "returned" /\ result' = Ok(NoEvents)
               /\ calls' = << "pending_commands" >>
               /\ persist_calls' = 0
               /\ UNCHANGED << session, persist_callback, persisted, relay >>
        /\ (pc = "returned" /\ EmptyBatch)
            => /\ Idle'
               /\ UNCHANGED << session, persist_callback, persisted, relay >>
      ]_vars

\* C1 witness: an empty poll has returned on a session that holds a high-water
\* mark and keys, and the response carries another batch index
C1_Witness ==
    /\ EmptyBatch /\ pc = "returned"
    /\ IsSome(last_handled_command)
    /\ pending.index /= Unwrap(last_handled_command)
    /\ HasKey(commands_data, COMMAND_NAME)
    /\ persist_callback

\* C2: once the batch of a non-empty poll is processed, last_handled_command
\* is the batch index of the response
C2_MarkIsBatchIndex ==
    (pc = "advanced" \/ BatchDone) => last_handled_command = Some(pending.index)

\* C2 witness: a poll returned after a batch whose last message carries
\* another index than the batch and of which no message was dispatched with
\* success
C2_Witness ==
    /\ BatchDone
    /\ LastMessage(pending).index /= pending.index
    /\ result.value = << >>

\* C3 (as claimed): whatever the relay answers, the high-water mark, once
\* set, never becomes smaller and never becomes absent
C3_MarkNeverDecreases ==
    [][ IsSome(last_handled_command)
            => /\ IsSome(last_handled_command')
               /\ Unwrap(last_handled_command') >= Unwrap(last_handled_command)
      ]_vars

\* The messages of the batch in progress whose dispatch succeeds
Dispatched(i) ==
    handle_command(pending.messages[i].data, DeviceList(relay_devices), commands_data)
Succeeded == {i \in 1..Len(pending.messages) : Dispatched(i).ok}
Rank(i) == Cardinality({j \in Succeeded : j <= i})
DispatchErrors ==
    {"UnknownCommand", "IllegalState", "JsonError", "CryptoError", "Base64Decode"}

\* C4: the events of a batch are the messages whose dispatch succeeded, one
\* event each, in the order of the batch; a message whose dispatch fails is
\* skipped, and no dispatch error becomes the error of the poll
C4_PartialFailureIsolation ==
    /\ (pc \in {"handled", "advanced"} \/ BatchDone)
        => /\ Len(account_events) = Cardinality(Succeeded)
           /\ \A i \in Succeeded : account_events[Rank(i)] = TabReceived(Dispatched(i).value)
           /\ BatchDone => result.value = account_events
    /\ (InPoll /\ pc = "returned") => result.error \notin DispatchErrors

\* C4 witness: a batch of one valid open-uri message and one bogus message
\* returned exactly one event
C4_Witness ==
    /\ BatchDone
    /\ Len(pending.messages) = 2
    /\ \E i \in 1..2 : pending.messages[i].data.command = BOGUS
    /\ Len(result.value) = 1

\* C5: no step of a poll up to and including handle_commands changes
\* last_handled_command, commands_data or the disk, or invokes the callback;
\* a poll that returns an error returns from one of these steps, with no event
C5_FailedPollChangesNothing ==
    [][ /\ (InPoll' /\ pc \in {"idle", "listed"})
            => /\ UNCHANGED << last_handled_command, commands_data, persisted >>
               /\ persist_calls' = 0
        /\ (InPoll' /\ pc' = "returned" /\ ~result'.ok)
            => /\ pc \in {"idle", "listed"}
               /\ result'.value = NoEvents
               /\ account_events' = << >>
      ]_vars

\* C5 witness: a poll that had retrieved messages returned an error, on a
\* session with a high-water mark and a registered callback
C5_Witness ==
    /\ InPoll /\ pc = "returned" /\ ~result.ok
    /\ pending.messages /= << >>
    /\ IsSome(last_handled_command)
    /\ persist_callback

\* The stored commands of a dropped batch
OwedIndexes == Unwrap(owed).requested .. Unwrap(owed).last
\* Every message of the dropped batch is in the batch in progress
Redelivered ==
    \A i \in OwedIndexes :
        \E n \in 1..Len(pending.messages) :
            pending.messages[n] = PendingCommand(i, relay_commands[i])
\* ... and every one that decodes has its event among the collected ones
Redispatched ==
    \A i \in OwedIndexes :
        LET r == handle_command(relay_commands[i], DeviceList(relay_devices), commands_data)
        IN  r.ok => \E n \in 1..Len(account_events) : account_events[n] = TabReceived(r.value)

\* C6: after a poll that retrieved messages and failed on the device list,
\* the next poll asks for the same index; its batch holds every message of
\* the failed one, and when its handle_commands succeeds they are dispatched
C6_RedeliveryAfterFailedDirectory ==
    (owed /= None /\ Unwrap(owed).cause = "devices" /\ InPoll /\ requested /= 0)
        => /\ requested = Unwrap(owed).requested
           /\ pending.status = "ok" => Redelivered
           /\ (pc \in {"handled", "advanced"} \/ BatchDone) => Redispatched

\* C6 witness: the poll after a failed one has dispatched the batch again and
\* decoded a tab of it
C6_Witness ==
    /\ owed /= None /\ Unwrap(owed).cause = "devices"
    /\ InPoll /\ pc = "handled"
    /\ account_events /= << >>

\* A stored command behind the persisted high-water mark that the restarted
\* process would decode
BehindMark(i) ==
    /\ i <= unwrap_or(OnDisk.last_handled_command, 0)
    /\ handle_command(relay_commands[i], DeviceList(relay_devices), OnDisk.commands_data).ok
\* The events of the poll in progress, not yet taken by the caller
InFlight == IF BatchDone THEN Tabs(result.value) ELSE {}

\* C7 (as claimed): whatever the point of a crash, no decodable command is
\* lost: a command that no later poll will request has been handled by the
\* consumer, or its event is in the hands of the running process
C7_NoCommandLost ==
    \A i \in 1..Len(relay_commands) : BehindMark(i) => i \in consumed \cup InFlight

\* C8: after a crash between the dispatch of a batch and the persistence of
\* the new mark, the next poll asks for the index after the persisted mark,
\* which is not beyond the one the crashed poll asked for; its batch holds
\* every message of the crashed one and they are dispatched again
C8_CrashBeforePersistRedelivers ==
    (owed /= None /\ Unwrap(owed).cause = "crash" /\ InPoll /\ requested /= 0)
        => /\ requested <= Unwrap(owed).requested
           /\ pc \in {"listed", "handled", "advanced"}
                => requested = request_index(OnDisk.last_handled_command)
           /\ pending.status = "ok" => Redelivered
           /\ (pc \in {"handled", "advanced"} \/ BatchDone) => Redispatched

\* C8 witness: the poll after such a crash has dispatched the batch again and
\* decoded a tab of it
C8_Witness ==
    /\ owed /= None /\ Unwrap(owed).cause = "crash"
    /\ InPoll /\ pc = "handled"
    /\ account_events /= << >>

\* C9: with a callback registered, a poll of a non-empty batch invokes it
\* exactly once, not before the mark is set, and what it wrote holds the new
\* mark when the poll returns
C9_PersistOnceAfterMark ==
    /\ (InPoll /\ pc \in {"listed", "handled", "advanced"}) => persist_calls = 0
    /\ (BatchDone /\ persist_callback)
        => /\ persist_calls = 1
           /\ OnDisk.last_handled_command = Some(pending.index)
           /\ OnDisk.last_handled_command = last_handled_command

\* C9 witness: a poll of two messages, none of them dispatched with success,
\* returned with the callback invoked once
C9_Witness ==
    /\ BatchDone /\ persist_callback
    /\ Len(pending.messages) = 2 /\ result.value = << >>
    /\ persist_calls = 1

\* C10 (as claimed): a poll whose listing is answered 'not found' returns
\* Ok with no event
C10_NotFoundIsEmpty ==
    (InPoll /\ pc = "returned" /\ pending.status = "not_found") => result = Ok(NoEvents)

InEnsure == op = "ensure_send_tab_registered"

\* C11: within one run of the process, once commands_data holds key material
\* for the open-uri command no step of any operation changes commands_data;
\* in particular a second ensure_send_tab_registered leaves the cached key
\* material as the first one made it
C11_KeysAreStable ==
    [][ HasKey(commands_data, COMMAND_NAME) => commands_data' = commands_data ]_vars

\* C11 witness: ensure_send_tab_registered returned from a call that found the
\* key material cached, after a poll had advanced the mark
C11_Witness ==
    /\ InEnsure /\ pc = "returned" /\ result.ok
    /\ persist_callback /\ persist_calls = 0
    /\ IsSome(last_handled_command)

\* C12: with a callback registered, the ensure_send_tab_registered call that
\* creates the key material invokes it exactly once, and what it wrote holds
\* the new key material; a call that finds the key material cached does not
\* invoke it and leaves the disk as it was
C12_CallbackOnKeyCreation ==
    [][ (pc = "idle" /\ InEnsure')
            => IF HasKey(commands_data, COMMAND_NAME)
               THEN persist_calls' = 0 /\ persisted' = persisted
               ELSE /\ persist_calls' = CallbackCalls(persist_callback)
                    /\ persist_callback
                        => /\ HasKey(commands_data', COMMAND_NAME)
                           /\ from_json(persisted').commands_data = commands_data'
      ]_vars

\* C12 witness: a call that created the key material returned with one
\* invocation, on a disk that now holds the key material
C12_Witness ==
    /\ InEnsure /\ pc = "returned"
    /\ persist_calls = 1
    /\ HasKey(OnDisk.commands_data, COMMAND_NAME)

\* A command a peer sealed with build_send_command, and the public key it was
\* sealed for
IsSealed(data) == data.command = COMMAND_NAME /\ "encrypted" \in DOMAIN data.payload
SealedForKey(data) == data.payload.encrypted[2][2][1]
\* This device holds the private key of that public key
HoldsKeyOf(data) ==
    /\ HasKey(commands_data, COMMAND_NAME)
    /\ from_str(commands_data[COMMAND_NAME]).value.public_key = SealedForKey(data)
\* The events collected for the page `url`
EventsWith(url) ==
    {e \in 1..Len(account_events) :
        \E n \in 1..Len(account_events[e].tab.entries) :
            account_events[e].tab.entries[n].url = url}

\* C13: a tab a peer holding the sync key sealed for the keys this device
\* registered, once the poll that retrieves it has dispatched its batch, has
\* exactly one event, whose payload is the one entry with the title and the
\* url sent, if the device holds the private key it was sealed for; a device
\* that holds another private key, or none, has no event for it
C13_EndToEndDelivery ==
    (InPoll /\ (pc \in {"handled", "advanced"} \/ BatchDone))
        => \A n \in 1..Len(pending.messages) :
            LET m == pending.messages[n]
            IN  IsSealed(m.data)
                => IF HoldsKeyOf(m.data)
                   THEN \E e \in 1..Len(account_events) :
                          /\ EventsWith(m.index) = {e}
                          /\ account_events[e].tab.entries =
                                << [title |-> TitleOf(m.index), url |-> m.index] >>
                   ELSE EventsWith(m.index) = {}

\* C13 witness: a poll returned a batch of two sealed tabs, one sealed for the
\* key the device holds and one for a key it no longer holds, with one event
C13_Witness ==
    /\ BatchDone /\ Len(pending.messages) = 2
    /\ \A n \in 1..2 : IsSealed(pending.messages[n].data)
    /\ \E n \in 1..2 : HoldsKeyOf(pending.messages[n].data)
    /\ \E n \in 1..2 : ~HoldsKeyOf(pending.messages[n].data)
    /\ Len(result.value) = 1

\* send_tab returned after the device list was fetched and the target found in
\* it; the peer is the one target the list holds
SendReachedTarget ==
    /\ op = "send_tab" /\ pc = "returned" /\ calls /= << >>
    /\ result.error /= "UnknownTargetDevice"
    /\ ~(result.error = "RequestFailed" /\ calls = << "devices" >>)
NoOpenUriEntry == ~HasKey(relay_devices[PEER], COMMAND_NAME)
NotInvoked == calls = << "devices" >>

LocalKek == sync_keys_as_send_tab_kek(scoped_keys).value
PeerBundle == from_str(relay_devices[PEER][COMMAND_NAME]).value
HmacCorrupted(bundle, kek) ==
    \E v \in WrappedValues :
        bundle = [Blob(v, kek) EXCEPT !.hmac = bundle.hmac] /\ bundle.hmac /= Blob(v, kek).hmac

\* C15: send_tab to a peer whose registration blob is one made under the
\* local KEK with another hmac field fails with HmacMismatch and makes no
\* invoke-command call
C15_CorruptedHmacStopsSend ==
    (SendReachedTarget /\ ~NoOpenUriEntry /\ IsSome(scoped_keys)
     /\ HmacCorrupted(PeerBundle, LocalKek))
        => result = Err("HmacMismatch") /\ NotInvoked

\* C15 witness: such a send returned, the hmac of the blob being one made
\* under another key
C15_Witness ==
    /\ SendReachedTarget /\ ~NoOpenUriEntry /\ IsSome(scoped_keys)
    /\ HmacCorrupted(PeerBundle, LocalKek)
    /\ PeerBundle.hmac = hmac_string("ksync2", PeerBundle.ciphertext)
    /\ result = Err("HmacMismatch")

\* KeyWrap decrypt has been applied: its arguments and what it returned
KeysDecrypted == fn_value /= None /\ Unwrap(fn_value).fn = "keys_decrypt"
Arg == Unwrap(fn_args)
Out == Unwrap(fn_value).out
ArgKek == [ksync |-> Arg.ksync, kxcs |-> Arg.kxcs]
HmacValid == Arg.bundle.hmac = hmac_string(Arg.ksync, Arg.bundle.ciphertext)

\* C16 (as claimed): for every blob whose kid does not hex-decode to the
\* supplied kxcs, KeyWrap decrypt fails with MismatchedKeys
C16_KidMismatchIsMismatchedKeys ==
    (KeysDecrypted /\ hex_decode(Arg.bundle.kid) /= Ok(Arg.kxcs))
        => Out = Err("MismatchedKeys")

\* C16 (amended): for every blob whose kid hex-decodes to another value than
\* the supplied kxcs, KeyWrap decrypt fails with MismatchedKeys, and for every
\* blob whose kid is not hex it fails with the hex decoding error; in both
\* cases whatever the hmac and the ciphertext are
C16_KidIsCheckedFirst ==
    (KeysDecrypted /\ hex_decode(Arg.bundle.kid) /= Ok(Arg.kxcs))
        => Out = IF hex_decode(Arg.bundle.kid).ok THEN Err("MismatchedKeys")
                 ELSE Err("HexDecode")

\* C16 witness: decrypt returned MismatchedKeys for a blob whose hmac does not
\* verify and whose ciphertext is not base64 either
C16_Witness ==
    /\ KeysDecrypted /\ Out = Err("MismatchedKeys")
    /\ ~HmacValid
    /\ ~base64_decode(Arg.bundle.ciphertext).ok

\* C17: KeyWrap decrypt, under the KEK it was made with, of the blob KeyWrap
\* encrypt made of the public keys v returns v
C17_KeyWrapRoundTrip ==
    KeysDecrypted
        => \A v \in WrappedValues : Arg.bundle = Blob(v, ArgKek) => Out = Ok(v)

\* C17 witness: the round trip of the public keys of the second key pair under
\* the second KEK
C17_Witness ==
    /\ KeysDecrypted
    /\ ArgKek = [ksync |-> "ksync2", kxcs |-> "kxcs2"]
    /\ Arg.bundle = Blob(PublicSendTabKeys(from_random("kB")), ArgKek)
    /\ Out = Ok(PublicSendTabKeys(from_random("kB")))

\* The blob is one KeyWrap encrypt made under the KEK, with another hmac field
\* or with another ciphertext field
Tampered(bundle, kek) ==
    \E v \in WrappedValues :
        \/ bundle = [Blob(v, kek) EXCEPT !.hmac = bundle.hmac]
                /\ bundle.hmac /= Blob(v, kek).hmac
        \/ bundle = [Blob(v, kek) EXCEPT !.ciphertext = bundle.ciphertext]
                /\ bundle.ciphertext /= Blob(v, kek).ciphertext

\* C18: KeyWrap decrypt, under the right KEK, of a blob whose hmac field or
\* whose ciphertext field was changed fails with HmacMismatch
C18_TamperedBlobIsHmacMismatch ==
    (KeysDecrypted /\ Tampered(Arg.bundle, ArgKek)) => Out = Err("HmacMismatch")

\* C18 witness: decrypt returned HmacMismatch for a blob whose ciphertext was
\* replaced by the ciphertext of another blob, its hmac left as it was
C18_Witness ==
    /\ KeysDecrypted /\ Tampered(Arg.bundle, ArgKek)
    /\ Arg.bundle.ciphertext = OtherBlob.ciphertext
    /\ \E v \in WrappedValues : Arg.bundle.hmac = Blob(v, ArgKek).hmac
    /\ Out = Err("HmacMismatch")

\* The payload decrypt has been applied
PayloadDecrypted == fn_value /= None /\ Unwrap(fn_value).fn = "payload_decrypt"
PayloadHandled == fn_value /= None /\ Unwrap(fn_value).fn = "handle_commands"
\* The sealed payload is one encrypt made for the key pair
Authentic ==
    \E p \in Payloads, k \in KeyIds :
        Arg.encrypted_payload = Sealed(p, k) /\ Arg.keys = from_random(k)

\* C19: the payload decrypt, with the key pair k, of what encrypt made of the
\* payload p for the exported public keys of k returns p
C19_PayloadRoundTrip ==
    PayloadDecrypted
        => \A p \in Payloads, k \in KeyIds :
            (Arg.encrypted_payload = Sealed(p, k) /\ Arg.keys = from_random(k))
                => Out = Ok(p)

\* C19 witness: the round trip of the payload of two tabs
C19_Witness ==
    /\ PayloadDecrypted /\ Authentic
    /\ Out.ok /\ Len(Out.value.entries) = 2

\* C20: the payload decrypt of anything that is not what encrypt made for
\* the key pair fails and returns no payload, and handle_commands has no
\* event for a command that carries it
C20_UnauthenticatedIsRejected ==
    /\ (PayloadDecrypted /\ ~Authentic) => (~Out.ok /\ Out.value = NoEvents)
    /\ (PayloadHandled /\ ~Authentic) => Out = << >>

\* C20 witness: decrypt failed on a payload sealed for the key pair of
\* another device
C20_Witness ==
    /\ PayloadDecrypted /\ ~Authentic
    /\ \E p \in Payloads : Arg.encrypted_payload = Sealed(p, "kB")
    /\ Arg.keys = from_random("kA")
    /\ Out = Err("CryptoError")

----------------------------------------------------------------------------
(* The shared session *)

\* A thread is inside a call on the account: from lock() returning to the
\* guard being dropped
MainInside == main_thread[1] = "locked"
PollInside == poll_thread = "locked"
Shared == main_thread[1] \in {"menu", "lock", "locked"}
OperationInProgress == pc /= "idle"

\* C21: the spawned thread's poll and the menu's calls (set_display_name,
\* get_devices, send_tab) never run on the shared account at the same time:
\* at most one thread is inside a call, that thread holds the Mutex, and an
\* operation in progress on the shared account is the call of that thread.
C21_MutualExclusion ==
    /\ ~(MainInside /\ PollInside)
    /\ MainInside => mutex = Some(MAIN)
    /\ PollInside => mutex = Some(POLL)
    /\ Shared /\ OperationInProgress =>
            \/ MainInside /\ op \in MenuCalls \cup OtherCalls
            \/ PollInside /\ op \in PollEntries

\* The poll is under way, past the listing, and the menu waits in lock() for
\* its call
C21_Witness ==
    /\ PollInside /\ pc = "listed" /\ op \in PollEntries
    /\ main_thread = At("lock", "send_tab")
    /\ mutex = Some(POLL)

\* C22: the spawned thread holds the Mutex exactly from lock() to the end of
\* the statement that calls poll_remote_commands: it is released when the
\* poll has returned, before the events are handled and before the sleep, so
\* never held during either; while nobody holds it no operation is under way.
C22_LockHeldForOneOperation ==
    /\ mutex = Some(POLL) <=> PollInside
    /\ poll_thread \in {"events", "sleep", "loop", "panicked"} => mutex /= Some(POLL)
    /\ Shared /\ mutex = None => ~OperationInProgress

\* The spawned thread still has the events of its poll to handle, and the
\* menu's call is running on the account
C22_Witness ==
    /\ poll_thread = "events" /\ evts /= << >>
    /\ MainInside /\ mutex = Some(MAIN) /\ OperationInProgress

\* The step invokes the persistence callback
CallbackInvoked == persist_calls' > persist_calls
\* The thread that runs the operation has the account to itself: it holds the
\* Mutex, or it is main before the account is shared and the thread spawned
HoldsSession ==
    \/ Shared /\ PollInside /\ mutex = Some(POLL)
    \/ Shared /\ MainInside /\ mutex = Some(MAIN)
    \/ main_thread[1] = "startup" /\ poll_thread = "none"
\* A callback that called into the session is waiting for the Mutex
CallbackBlocked == pc = "callback"

----------------------------------------------------------------------------
(* What the relay is sent *)

\* A registration value that is the JSON of a KeyWrap blob: kid, iv and hmac
\* in clear, and a ciphertext under the sync key that holds the public
\* projection (public key and auth secret, nothing else) of a key pair
WrappedProjection(v) ==
    /\ from_str(v).ok
    /\ LET bundle == from_str(v).value
           ciphertext == base64_decode(bundle.ciphertext)
       IN  /\ DOMAIN bundle = {"kid", "iv", "hmac", "ciphertext"}
           /\ IsTagged(bundle.kid, "hex") /\ bundle.kid[2] = LocalKek.kxcs
           /\ bundle.iv = base64_encode(IV)
           /\ bundle.hmac = hmac_string(LocalKek.ksync, bundle.ciphertext)
           /\ ciphertext.ok /\ IsTagged(ciphertext.value, "aes")
           /\ ciphertext.value[2][1] = LocalKek.ksync
           /\ LET wrapped == from_str(ciphertext.value[2][3])
              IN  /\ wrapped.ok
                  /\ DOMAIN wrapped.value = {"public_key", "auth_secret"}
                  /\ IsTagged(base64url_decode(wrapped.value.public_key).value, "pub")
                  /\ IsTagged(base64url_decode(wrapped.value.auth_secret).value, "auth")

\* An invoke-command payload that is a sealed record and nothing else
SealedPayload(payload) ==
    /\ DOMAIN payload = {"encrypted"}
    /\ base64url_decode(payload.encrypted).ok
    /\ IsTagged(base64url_decode(payload.encrypted).value, "ece")

\* The commands a device update registers
Registered(update) ==
    IF update.available_commands = None THEN EmptyMap
    ELSE IF Unwrap(update.available_commands) = None THEN EmptyMap
    ELSE Unwrap(Unwrap(update.available_commands))

NoSecretIn(r) ==
    IF r.request = "update_device" THEN
        \A c \in DOMAIN Registered(r.body) :
            /\ WrappedProjection(Registered(r.body)[c])
            /\ HasKey(commands_data, c) => Registered(r.body)[c] /= commands_data[c]
    ELSE IF r.request = "invoke_command" THEN
        /\ DOMAIN r.body = {"command", "target", "payload"}
        /\ r.body.command = COMMAND_NAME /\ r.body.target \in Targets
        /\ SealedPayload(r.body.payload)
    ELSE IF r.request = "pending_commands" THEN
        DOMAIN r = {"request", "token", "index", "limit"}
    ELSE r.request = "devices" /\ DOMAIN r = {"request", "token"}

\* C24: no request the session sends to the relay (device update,
\* invoke-command, command listing, device listing) carries the private key,
\* the commands_data entry as stored, an auth secret outside a KeyWrap blob, or
\* the title or url of a tab in clear: a device update registers only KeyWrap
\* blobs of the public projection, an invoke-command carries only the sealed
\* payload, and the listings carry an index and nothing of the session's keys.
C24_RelaySeesNoSecret == \A i \in DOMAIN requests : NoSecretIn(requests[i])

\* send_tab has just sent its invoke-command request, and the device's own
\* registration has reached the relay before
C24_Witness ==
    /\ op = "send_tab" /\ pc = "returned" /\ result.ok
    /\ Len(requests) = 2 /\ requests[2].request = "invoke_command"
    /\ HasKey(relay_devices[OWN], COMMAND_NAME)

----------------------------------------------------------------------------
(* The persisted state *)

\* The account was read from the text of to_json and serialized again
Reserialized ==
    /\ fn_args /= None /\ Unwrap(fn_args).fn = "from_json"
    /\ fn_value /= None /\ Unwrap(fn_value).fn = "to_json"
\* The state the first to_json serialized
Serialized == Unwrap(fn_args).data[2]

----------------------------------------------------------------------------
(* Device updates *)

UpdateBuilt == fn_value /= None /\ Unwrap(fn_value).fn = "update"

\* C26: for each field of a device update (name, type, the push-subscription
\* fields, availableCommands) and each of absent, null and value, there is a
\* request whose serialized body says exactly that of the field.
C26_TriStatePerField ==
    UpdateBuilt =>
        /\ Unwrap(fn_value).out /= None
        /\ FieldState(Unwrap(Unwrap(fn_value).out), Unwrap(fn_args).field)
                = Unwrap(fn_args).state

-----------------------------------------------------------------------------
(* Places tombstones *)

LastStatement(sql) == fn_args /= None /\ Unwrap(fn_args).fn = sql

\* C27: inserting a row into moz_places with guid g removes any row with
\* guid g from moz_places_tombstones: right after an insert into moz_places
\* the inserted guid is a row of moz_places and has no tombstone.
C27_InsertRemovesTombstone ==
    LastStatement("INSERT INTO moz_places") =>
        /\ Unwrap(fn_args).guid \in {r.guid : r \in moz_places}
        /\ Unwrap(fn_args).guid \notin moz_places_tombstones
        /\ moz_places_tombstones = Unwrap(fn_value) \ {Unwrap(fn_args).guid}

C27_Witness ==
    /\ LastStatement("INSERT INTO moz_places")
    /\ Unwrap(fn_args).guid \in Unwrap(fn_value)
    /\ Unwrap(fn_args).guid \notin moz_places_tombstones

\* C28: deleting a row from moz_places leaves moz_places_tombstones as it
\* was: no trigger creates a tombstone for the deleted guid.
C28_DeleteCreatesNoTombstone ==
    LastStatement("DELETE FROM moz_places") =>
        /\ moz_places_tombstones = Unwrap(fn_value)
        /\ Unwrap(fn_args).guid \notin {r.guid : r \in moz_places}

C28_Witness ==
    /\ LastStatement("DELETE FROM moz_places")
    /\ Unwrap(fn_args).guid \notin moz_places_tombstones
    /\ moz_updateoriginsdelete_temp /= {}

-----------------------------------------------------------------------------
(* Order of dispatch *)

\* The messages of a batch in ascending order of their index
RECURSIVE AscendingIndex(_)
AscendingIndex(messages) ==
    IF messages = << >> THEN << >>
    ELSE LET first == CHOOSE i \in 1..Len(messages) :
                          \A j \in 1..Len(messages) : messages[i].index <= messages[j].index
         IN  << messages[first] >>
             \o AscendingIndex([n \in 1..(Len(messages) - 1) |->
                                   IF n < first THEN messages[n] ELSE messages[n + 1]])

\* C29 (as claimed): the events of a batch are the events of its messages
\* taken in ascending order of index, whatever the order of the listing
C29_AscendingIndexOrder ==
    BatchDone =>
        result.value = handle_commands(AscendingIndex(pending.messages),
                                       DeviceList(relay_devices), commands_data)

-----------------------------------------------------------------------------
(* The listing request *)

ListingRequests ==
    {requests[i] : i \in {j \in DOMAIN requests : requests[j].request = "pending_commands"}}

\* The mark is the one the poll in progress found: the poll has not stored
\* the index of a batch
MarkAsFound == InPoll /\ pc \in {"listed", "handled", "returned"} /\ ~BatchDone

\* C30: a poll sends one listing request; it asks for the index one above
\* the high-water mark, for index 1 when no mark was ever stored, and it
\* carries no limit.
C30_RequestsNextIndex ==
    /\ \A r \in ListingRequests : r.limit = None
    /\ (InPoll /\ refresh_token /= None) => Cardinality(ListingRequests) = 1
    /\ MarkAsFound =>
           \A r \in ListingRequests :
               /\ last_handled_command = None => r.index = 1
               /\ last_handled_command /= None =>
                      r.index = Unwrap(last_handled_command) + 1

\* C30 witness: a poll of a session whose mark is 1 or more has listed, and
\* a message of index at or below the mark would not be asked for
C30_Witness ==
    /\ InPoll /\ pc = "listed"
    /\ last_handled_command /= None
    /\ Unwrap(last_handled_command) >= 1
    /\ \E r \in ListingRequests : r.index > Unwrap(last_handled_command)

-----------------------------------------------------------------------------
(* Sender resolution *)

\* The device of the list fetched for the batch that a message names as its
\* sender, if the message names one and the list holds it
ListedSender(data) ==
    LET known == IF data.sender = None THEN {}
                 ELSE {d \in DeviceList(relay_devices) : d.id = Unwrap(data.sender)}
    IN  IF known = {} THEN None ELSE Some(CHOOSE d \in known : TRUE)

\* C31: whether the dispatch of a message succeeds does not depend on its
\* sender: a message without sender, or with a sender id the device list
\* does not hold, gives an event with sender None, and a message whose
\* sender id is in the list gives an event carrying that device.
C31_SenderResolutionNeverFails ==
    (pc \in {"handled", "advanced"} \/ BatchDone) =>
        \A i \in 1..Len(pending.messages) :
            LET data == pending.messages[i].data
                anonymous == handle_send_tab_command(None, data.payload, commands_data)
            IN  data.command = COMMAND_NAME =>
                   /\ (i \in Succeeded) = anonymous.ok
                   /\ anonymous.ok =>
                          /\ Rank(i) <= Len(account_events)
                          /\ account_events[Rank(i)].sender = ListedSender(data)
                          /\ account_events[Rank(i)].tab = anonymous.value.tab

\* C31 witness: a poll returned the event of a message whose sender is not
\* in the device list, with no sender
C31_Witness ==
    /\ BatchDone
    /\ \E i \in Succeeded :
           /\ pending.messages[i].data.sender = Some(REMOVED)
           /\ REMOVED \notin {d.id : d \in DeviceList(relay_devices)}
           /\ account_events[Rank(i)].sender = None

-----------------------------------------------------------------------------
(* Operations that need the refresh token *)

TokenOperations ==
    PollEntries \cup {"get_devices", "send_tab", "set_display_name", "clear_display_name",
                      "set_push_subscription", "register_command", "unregister_command"}

\* C32: on a session without refresh token, poll, get_devices, send_tab and
\* the device updates return NoRefreshToken, send no request, and leave the
\* high-water mark and the relay as they were.
C32_NoRefreshToken ==
    [][(refresh_token = None /\ pc = "idle" /\ pc' = "returned" /\ op' \in TokenOperations)
          => /\ result' = Err("NoRefreshToken")
             /\ requests' = << >> /\ calls' = << >>
             /\ last_handled_command' = last_handled_command
             /\ relay' = relay
      ]_vars

\* C32 witness: unregister_command returned NoRefreshToken on a session
\* without token, with no request sent
C32_Witness ==
    /\ refresh_token = None
    /\ pc = "returned" /\ op = "unregister_command"
    /\ result = Err("NoRefreshToken")
    /\ requests = << >>

-----------------------------------------------------------------------------
(* ensure_send_tab_registered: what a failed call leaves *)

\* The registration blob made from the key material in `cd`
BlobOf(cd) ==
    as_command_data(PublicSendTabKeys(from_str(cd[COMMAND_NAME]).value),
                    sync_keys_as_send_tab_kek(scoped_keys).value, IV)

\* The one request of an ensure_send_tab_registered call carries the blob
\* made from `cd` as the only available command
PublishesKeysOf(cd, sent) ==
    /\ Len(sent) = 1
    /\ sent[1].request = "update_device"
    /\ sent[1].body.available_commands = Some(Some(OneEntry(COMMAND_NAME, BlobOf(cd))))

\* C33: a call of ensure_send_tab_registered that finds no key material
\* stores new key material and invokes the callback whether or not the KEK
\* derivation, the token lookup or the device update that follow succeed;
\* their error is the result of the call; a call that finds key material
\* keeps it and, when it gets as far as the device update, publishes the
\* blob of that key material.
C33_KeysSurviveFailure ==
    [][ (pc = "idle" /\ InEnsure')
            => /\ HasKey(commands_data', COMMAND_NAME)
               /\ HasKey(commands_data, COMMAND_NAME) => commands_data' = commands_data
               /\ ~HasKey(commands_data, COMMAND_NAME)
                      => /\ persist_calls' = CallbackCalls(persist_callback)
                         /\ persist_callback
                                => from_json(persisted').commands_data = commands_data'
               /\ IF scoped_keys = None
                  THEN result' = Err("NoScopedKey") /\ requests' = << >>
                  ELSE IF refresh_token = None
                  THEN result' = Err("NoRefreshToken") /\ requests' = << >>
                  ELSE /\ PublishesKeysOf(commands_data', requests')
                       /\ result' \in {Ok(Unit), Err("RequestFailed")}
                       /\ ~result'.ok => relay_devices' = relay_devices
      ]_vars

\* C33 witness: the device update of a call that created key material
\* failed; the key material is cached and written through the callback, and
\* nothing is registered
C33_Witness ==
    /\ InEnsure /\ pc = "returned" /\ result = Err("RequestFailed")
    /\ persist_calls = 1
    /\ HasKey(commands_data, COMMAND_NAME)
    /\ from_json(persisted).commands_data = commands_data
    /\ relay_devices[OWN] = EmptyMap

-----------------------------------------------------------------------------
(* Command registration *)

CommandsCall(name) ==
    /\ pc = "idle" /\ pc' = "returned" /\ op' = name /\ refresh_token /= None

SentCommands == requests'[1].body.available_commands

\* C34: register_command(c, v) sends the map {c: v} and nothing else, and
\* unregister_command(c) sends the empty map; when the relay accepts the
\* request the device advertises exactly the map sent, whatever it
\* advertised before.
C34_FullOverwrite ==
    [][ /\ CommandsCall("register_command")
            => /\ Len(requests') = 1
               /\ SentCommands = Some(Some(OneEntry(Unwrap(fn_args').command,
                                                     Unwrap(fn_args').value)))
               /\ result'.ok => relay_devices'[OWN] =
                                    OneEntry(Unwrap(fn_args').command, Unwrap(fn_args').value)
        /\ CommandsCall("unregister_command")
            => /\ Len(requests') = 1
               /\ SentCommands = Some(Some(EmptyMap))
               /\ result'.ok => relay_devices'[OWN] = EmptyMap
      ]_vars

\* C34 witness: the device advertised one command, register_command of
\* another command succeeded, and the first is gone
C34_Witness ==
    /\ pc = "returned" /\ op = "register_command" /\ result.ok
    /\ fn_value /= None /\ DOMAIN Unwrap(fn_value) = {BOGUS}
    /\ DOMAIN relay_devices[OWN] = {COMMAND_NAME}

-----------------------------------------------------------------------------
(* Device updates of another field *)

\* The members of the JSON body of the request a call sent
SentMembers == DOMAIN from_str(update_to_string(requests'[1].body)).value

MembersSet ==
    [set_display_name |-> {"name"},
     clear_display_name |-> {"name"},
     set_push_subscription |-> {"pushCallback", "pushPublicKey", "pushAuthKey"}]

\* C35: set_display_name, clear_display_name and set_push_subscription send
\* a body that holds the members they set and no other, availableCommands
\* in particular is absent, and the commands the device advertises are the
\* same after the call as before.
C35_OtherUpdatesKeepCommands ==
    [][ \A name \in DOMAIN DeviceUpdates :
            CommandsCall(name)
                => /\ Len(requests') = 1
                   /\ requests'[1].body.available_commands = None
                   /\ SentMembers = MembersSet[name]
                   /\ relay_devices' = relay_devices
      ]_vars

\* C35 witness: after ensure_send_tab_registered, set_push_subscription
\* succeeded and the device still advertises its registration blob
C35_Witness ==
    /\ pc = "returned" /\ op = "set_push_subscription" /\ result.ok
    /\ HasKey(commands_data, COMMAND_NAME) /\ scoped_keys /= None
    /\ relay_devices[OWN] = OneEntry(COMMAND_NAME, BlobOf(commands_data))

-----------------------------------------------------------------------------
(* Progress of the menu's calls *)

MainWaits == main_thread[1] = "lock"
MainRan == MainInside /\ pc = "returned" /\ op = main_thread[2]

\* C36: under fair scheduling a call of the menu that waits for the Mutex
\* gets it and runs, as long as the spawned thread goes on polling and
\* sleeping (it is not blocked for ever inside a callback that calls into
\* the session).
C36_ForegroundNotStarved == MainWaits ~> (MainRan \/ CallbackBlocked)

\* C36 witness: the menu's call has run under the Mutex while the spawned
\* thread, which has polled before, waits for it
C36_Witness ==
    /\ MainRan
    /\ mutex = Some(MAIN)
    /\ poll_thread = "loop"
    /\ last_handled_command /= None

-----------------------------------------------------------------------------
(* Messages behind the mark *)

Mark == unwrap_or(last_handled_command, 0)

\* C37: without a crash and against a relay that lists what it stores, the
\* mark never becomes smaller; a poll that completes its batch puts the mark
\* at or above the index of every message of the batch, dispatched or
\* skipped; and a listing holds only messages above the mark.  So a message
\* skipped in a completed poll is in no later batch.
C37_SkippedIsNeverRedelivered ==
    [][ /\ unwrap_or(last_handled_command', 0) >= Mark
        /\ (pc = "handled" /\ pc' = "advanced")
              => \A n \in 1..Len(pending.messages) :
                     pending.messages[n].index <= unwrap_or(last_handled_command', 0)
        /\ (pc = "idle" /\ InPoll' /\ pending'.status = "ok")
              => /\ requested' > Mark
                 /\ \A n \in 1..Len(pending'.messages) :
                        pending'.messages[n].index > Mark
      ]_vars

\* C37 witness: an open-uri message behind the mark was never handed to the
\* caller; the session holds key material now, and a later poll has listed
\* a batch that does not hold the message
C37_Witness ==
    /\ InPoll /\ pc = "listed"
    /\ HasKey(commands_data, COMMAND_NAME)
    /\ \E i \in 1..Len(relay_commands) :
           /\ i <= Mark
           /\ relay_commands[i].command = COMMAND_NAME
           /\ IsSealed(relay_commands[i])
           /\ i \notin consumed
           /\ \A n \in 1..Len(pending.messages) : pending.messages[n].index /= i

-----------------------------------------------------------------------------
(* The width of the index *)

IndexRequested == fn_value /= None /\ Unwrap(fn_value).fn = "request_index"

\* C38 (as claimed): for every mark a response can install, 2^64 - 1
\* included, the poll computes mark + 1 without aborting and without
\* wrapping to 0
C38_IndexNeverOverflows ==
    IndexRequested =>
        /\ Unwrap(fn_value).out.ok
        /\ Unwrap(fn_value).out.value /= U64_ZERO

-----------------------------------------------------------------------------
(* KEK derivation *)

UsesKek == op \in {"ensure_send_tab_registered", "send_tab"}

\* C39 (as claimed): whatever the kid of the stored scoped key, a kid
\* without '-' included, ensure_send_tab_registered and send_tab return a
\* value, Ok or an error, and never panic
C39_KekDerivationNeverPanics ==
    (pc = "returned" /\ UsesKek) => ~IsPanic(result)

-----------------------------------------------------------------------------
(* Places visit counters *)

\* the visits of a place that the counters count: local or remote ones, of a
\* type other than 0, 4, 7, 8, 9
CountedVisits(place_id, local) ==
    {v \in moz_historyvisits : /\ v.place_id = place_id
                               /\ (v.is_local /= 0) = local
                               /\ v.visit_type \notin {0, 4, 7, 8, 9}}

\* C40: after any sequence of inserts into and deletes from
\* moz_historyvisits, every row of moz_places (inserted with the default
\* counters) has visit_count_local equal to the number of its local visits
\* and visit_count_remote equal to the number of its remote visits whose
\* visit_type is not one of 0, 4, 7, 8, 9
C40_VisitCountersTrackVisits ==
    \A r \in moz_places :
        /\ r.visit_count_local = Cardinality(CountedVisits(r.id, TRUE))
        /\ r.visit_count_remote = Cardinality(CountedVisits(r.id, FALSE))

\* A visit was deleted, and a place keeps one counted local visit
C40_Witness ==
    /\ fn_args /= None /\ Unwrap(fn_args).fn = "DELETE FROM moz_historyvisits"
    /\ \E r \in moz_places :
           /\ r.visit_count_local = 1 /\ r.visit_count_remote = 0
           /\ \E v \in moz_historyvisits :
                  v.place_id = r.id /\ v.is_local = 1 /\ v.visit_type = 1

=============================================================================
